---- MODULE Spec2Model ----
(***************************************************************************)
(* Model of the /export-chat pipeline of src/src/app.ts: one run of        *)
(* processExportAsync, from the parsing of the command text to the upload  *)
(* of the plain artifact, with getThreadReplies unfolded into its awaits.  *)
(*                                                                         *)
(* Units: instants of the time window are hours (a day is 24 of them);     *)
(* sleeps are seconds.  A raw Slack ts string is an integer; the string    *)
(* that formatMessage prints for it is a record, so that a raw ts and its  *)
(* printed form are different values, as they are different strings.       *)
(***************************************************************************)
EXTENDS Integers, Sequences, FiniteSets, TLC

\* ------------------------------------------------------------------ bounds
MaxMsgs == 2        \* primary messages the remote history holds at most
MaxReplies == 2     \* replies a thread holds at most
PageLen == 2        \* items the remote side puts on one history page at most
MaxListing == 3     \* pages a served listing is cut into at most
MaxCalls == 4       \* history calls followed along a served listing
MaxThreads == 23    \* thread roots of the long channel at most
MaxAuthored == 3    \* messages of a history rendered for its authors
MaxTaskRoots == 2   \* thread roots of a channel two exports run on

\* ------------------------------------------------------- program constants
JstOffsetHours == 9          \* addHours(date, -9) / addHours(date, 9)
PreCallDelaySec == 5         \* setTimeout(resolve, 5000)
DefaultRetryAfterSec == 60   \* retryAfter || 60
ProgressEvery == 10          \* (i + 1) % 10 === 0
SecondsPerThread == 5        \* (threadMessages.length * 5) / 60
SecondsPerMinute == 60

\* -------------------------------------------------------------- JS values
Undefined == "undefined"
\* The null that parseDateTime returns, and a parsed Date (in hours).
Null == [valid |-> FALSE, at |-> 0]
DateAt(h) == [valid |-> TRUE, at |-> h]
ChannelId == "C0001"

\* ---------------------------------------------------------- command text
\* The words of command.text.  "D" is YYYY-MM-DD, "DT" is YYYY-MM-DDTHH:mm,
\* "t" is a lone HH:mm (the second word of "YYYY-MM-DD HH:mm"), "flag" is
\* --no-threads, "junk" is any other word.
Days == 1..2
DateTok(d) == [shape |-> "D", day |-> d, hour |-> 0]
DateTimeTok(d, h) == [shape |-> "DT", day |-> d, hour |-> h]
TimeTok == [shape |-> "t", day |-> 0, hour |-> 10]
FlagTok == [shape |-> "flag", day |-> 0, hour |-> 0]
JunkTok == [shape |-> "junk", day |-> 0, hour |-> 0]
EmptyTok == [shape |-> "empty", day |-> 0, hour |-> 0]
Tokens == {DateTok(d) : d \in Days} \cup {DateTimeTok(2, 0), TimeTok, FlagTok, JunkTok}
CommandTexts == UNION {[1..n -> Tokens] : n \in 0..3}

\* command.text.trim().split(/\s+/): the empty text splits into [""].
SplitArgs(words) == IF words = <<>> THEN <<EmptyTok>> ELSE words

\* dateStr.includes('T')
IncludesT(tok) == tok.shape = "DT"

\* `${dateStr}T00:00:00` when the token holds no 'T'.
IsoString(tok) ==
  IF IncludesT(tok) THEN tok
  ELSE IF tok.shape = "D" THEN [shape |-> "DT", day |-> tok.day, hour |-> 0]
  ELSE [shape |-> "invalid", day |-> 0, hour |-> 0]

\* isValid(parseISO(isoString))
IsValidIso(iso) == iso.shape = "DT"

\* parseISO: the instant, in hours.
ParseISO(iso) == iso.day * 24 + iso.hour

\* A resolver that takes the token as it is, without the shift.
parseDateTimeNoShift(tok) ==
  IF IsValidIso(IsoString(tok)) THEN DateAt(ParseISO(IsoString(tok))) ELSE Null

parseDateTime(tok) ==
  IF IsValidIso(IsoString(tok))
  THEN DateAt(ParseISO(IsoString(tok)) - JstOffsetHours)
  ELSE Null

\* A range check that lets an empty window through.
InRangeOrEqual(sd, ed) == ~(sd.at > ed.at)

\* !(startDate >= endDate) (268)
InRange(sd, ed) == ~(sd.at >= ed.at)

\* args.includes('--no-threads')
SkipThreadsOf(args) == \E k \in DOMAIN args : args[k] = FlagTok

\* addHours(startDate, 9) (417, 418): the instant shown, in hours.
JstDate(date) == date.at + JstOffsetHours

\* format(addHours(date, 9), 'yyyy-MM-dd'): the local day of an instant.
JstDay(instant) == (instant + JstOffsetHours) \div 24

\* ---------------------------------------------------------------- messages
\* A message of the remote history.  thread_ts is 0 for a message outside
\* any thread (the field is absent) and equals ts for a thread root.  text
\* is a list of words; a word is 0 for a plain word, or the raw ts string of
\* a message.  The texts are a plain one and one that quotes the ts of the
\* oldest message the channel may hold.
PrimaryTs == {10 * k : k \in 1..MaxMsgs}
Texts == {<<0>>, <<10>>}
Msg(t, x, isRoot) ==
  [ts |-> t, user |-> "U1", text |-> x, thread_ts |-> IF isRoot THEN t ELSE 0]
PrimaryMsgs == {Msg(t, x, r) : t \in PrimaryTs, x \in Texts, r \in BOOLEAN}

\* A message by another author: an id users.list knows, an id it does not
\* know, the empty id, or no user field at all (a bot's message).
Authors == {"U1", "U9", "", Undefined}
MsgBy(t, author) == [Msg(t, <<0>>, FALSE) EXCEPT !.user = author]

\* The long channel: n thread roots and nothing else.
LongChannelBase == 1000
LongChannel(n) == [k \in 1..n |-> Msg(LongChannelBase + k, <<0>>, TRUE)]

ReplyMsg(root, k) ==
  [ts |-> root + k, user |-> "U1", text |-> <<0>>, thread_ts |-> root]

\* The sizes result.messages may have for a thread root; a thread of the
\* long channel holds its root and one reply.
ThreadSizes(rootMsg) ==
  IF rootMsg.ts > LongChannelBase THEN {2} ELSE 0..(MaxReplies + 1)

\* What conversations.replies answers for a thread root: n messages, the
\* first of them the root itself when n > 0.
RepliesResult(rootMsg, n) ==
  IF n = 0 THEN <<>>
  ELSE <<rootMsg>> \o [k \in 1..(n - 1) |-> ReplyMsg(rootMsg.ts, k)]

\* The directory users.list answers, and the empty one of a failed listing.
Directory == [id \in {"U1"} |-> "Alice"]
EmptyDirectory == [id \in {} |-> ""]

\* users.get(id)
MapGet(users, id) == IF id \in DOMAIN users THEN users[id] ELSE Undefined

\* a || b of JS on strings: b when a is undefined or empty.
OrElse(a, b) == IF a = Undefined \/ a = "" THEN b ELSE a

\* member.real_name || member.name || member.id (132)
DisplayName(member) == OrElse(OrElse(member.real_name, member.name), member.id)

\* result.members.forEach(member => users.set(member.id, ...)) (130 - 134)
DirectoryOf(members) ==
  [id \in {members[k].id : k \in DOMAIN members} |->
     DisplayName(members[CHOOSE k \in DOMAIN members :
                           /\ members[k].id = id
                           /\ \A j \in DOMAIN members : members[j].id = id => j <= k])]

\* The members users.list may answer with for the id U1.
Members ==
  {[id |-> "U1", real_name |-> rn, name |-> nm] :
     rn \in {"Alice", "", Undefined}, nm \in {"alice", Undefined}}
Directories == {DirectoryOf(<<m>>) : m \in Members} \cup {EmptyDirectory}

\* A resolution that knows the directory and nothing else.
UserNameOfDirectoryOnly(message, users) ==
  OrElse(MapGet(users, message.user), "Unknown User")

\* users.get(message.user) || message.user || 'Unknown User' (56)
UserNameOf(message, users) ==
  OrElse(OrElse(MapGet(users, message.user), message.user), "Unknown User")

\* users.get(message.user) || message.user || 'Unknown User' (67)
UserNameOfMarkdown(message, users) ==
  OrElse(OrElse(MapGet(users, message.user), message.user), "Unknown User")

\* format(addHours(new Date(parseFloat(ts) * 1000), 9), 'yyyy-MM-dd HH:mm:ss')
FormatTime(ts) == [jst |-> ts + JstOffsetHours * 3600]

formatMessage(message, users, indent) ==
  [fmt |-> "plain", indent |-> indent, time |-> FormatTime(message.ts),
   user |-> UserNameOf(message, users), text |-> message.text]

formatMessageMarkdown(message, users, indent) ==
  [fmt |-> IF indent # "" THEN "quote" ELSE "heading", indent |-> indent,
   time |-> FormatTime(message.ts),
   user |-> UserNameOfMarkdown(message, users), text |-> message.text]

\* m.includes(ts): the raw ts string occurs in the rendered line.  The
\* printed time holds no raw ts and the display names of Directory hold
\* none, so it occurs exactly when a word of the text is that ts.
LineIncludes(line, ts) == \E k \in DOMAIN line.text : line.text[k] = ts

\* allMessages.findIndex(m => m.includes(ts)): 0-based, -1 when none.
FindIndex(lines, ts) ==
  IF \E k \in DOMAIN lines : LineIncludes(lines[k], ts)
  THEN (CHOOSE k \in DOMAIN lines :
          /\ LineIncludes(lines[k], ts)
          /\ \A j \in 1..(k - 1) : ~LineIncludes(lines[j], ts)) - 1
  ELSE -1

\* A splice that writes the items over the entries that follow `at`.
SpliceOver(lines, at, items) ==
  SubSeq(lines, 1, at) \o items
    \o SubSeq(lines, at + Len(items) + 1, Len(lines))

\* lines.splice(at, 0, ...items)
Splice(lines, at, items) ==
  SubSeq(lines, 1, at) \o items \o SubSeq(lines, at + 1, Len(lines))

\* The messages left in the order the pages brought them.
SortByTsSkipped(msgs) == msgs

\* Array.prototype.sort with (a, b) => parseFloat(a.ts) - parseFloat(b.ts):
\* a stable sort by ts.
RECURSIVE InsertByTs(_, _)
InsertByTs(sorted, m) ==
  IF sorted = <<>> THEN <<m>>
  ELSE IF sorted[Len(sorted)].ts <= m.ts THEN Append(sorted, m)
  ELSE Append(InsertByTs(SubSeq(sorted, 1, Len(sorted) - 1), m), sorted[Len(sorted)])

RECURSIVE SortByTsFrom(_, _)
SortByTsFrom(done, rest) ==
  IF rest = <<>> THEN done
  ELSE SortByTsFrom(InsertByTs(done, Head(rest)), Tail(rest))

SortByTs(msgs) == SortByTsFrom(<<>>, msgs)

\* A filter that takes every primary message for a thread root.
FilterRootsEvery(msgs) == msgs

\* messages.filter(msg => msg.thread_ts && msg.thread_ts === msg.ts)
RECURSIVE FilterRoots(_)
FilterRoots(msgs) ==
  IF msgs = <<>> THEN <<>>
  ELSE IF Head(msgs).thread_ts # 0 /\ Head(msgs).thread_ts = Head(msgs).ts
       THEN <<Head(msgs)>> \o FilterRoots(Tail(msgs))
       ELSE FilterRoots(Tail(msgs))

\* A reply set that keeps the first element of the response.
SliceRepliesWhole(resultMessages) == resultMessages

\* result.messages && result.messages.length > 1 ? result.messages.slice(1) : []
SliceReplies(resultMessages) ==
  IF Len(resultMessages) > 1 THEN Tail(resultMessages) ELSE <<>>

\* An estimate that rounds down.
EstimatedMinutesFloor(threads) ==
  (threads * SecondsPerThread) \div SecondsPerMinute

\* Math.ceil((threads * 5) / 60) (362, 392)
EstimatedMinutes(threads) ==
  LET seconds == threads * SecondsPerThread
  IN IF seconds % SecondsPerMinute = 0
     THEN seconds \div SecondsPerMinute
     ELSE seconds \div SecondsPerMinute + 1

\* A loop that fetches the replies whatever the flag says.
ProcessThreadsAlways(roots, skip) == roots > 0

\* threadMessages.length > 0 && !skipThreads (358)
ProcessThreads(roots, skip) == roots > 0 /\ ~skip

\* A check that never finds the result empty.
IsEmptyResultNever(msgs) == FALSE

\* messages.length === 0 (315)
IsEmptyResult(msgs) == Len(msgs) = 0

\* A wait that takes the retryAfter as it comes, without the default.
RetryWaitNoDefault(retryAfter) == retryAfter

\* retryAfter || 60: a failure that carries no retryAfter has it 0 here.
RetryWait(retryAfter) ==
  IF retryAfter = 0 THEN DefaultRetryAfterSec ELSE retryAfter

\* ------------------------------------------------------------------- state
VARIABLES
  handler,             \* where the /export-chat command handler stands
  pc,                  \* the await at which processExportAsync stands,
                       \* "idle" until the handler calls it
  listing,             \* the history the remote side serves, as the pages it
                       \* cuts it into; <<>> for a channel whose pages are
                       \* cut call by call
  words,               \* command.text, not yet split
  startDate, endDate,  \* parseDateTime(args[0]), parseDateTime(args[1])
  skipThreads,         \* args.includes('--no-threads')
  cursor,              \* next_cursor of the last history page, 0 when none
  pageCount,           \* pages fetched so far, while the fetch loop runs
  messages,            \* the primary messages accumulated, then sorted
  users,               \* the map getUsersInfo returned
  channelName,
  allMessages, allMessagesMarkdown,
  totalMessageCount,
  i,                   \* index into threadMessages, 0-based
  trace,               \* events of the getThreadReplies invocation under way
  inflight,            \* conversations.replies calls issued and not returned
  started,             \* ts of the roots getThreadReplies was invoked for
  fetched,             \* sizes of the reply sets getThreadReplies returned
  degraded,            \* the ways a thread's replies were given up so far
  responds,            \* respond() calls of processExportAsync, in order
  files,               \* the exports directory: file name -> content
  uploads,             \* files.uploadV2 calls made
  api,                 \* whether history, users.list, conversations.info
                       \* were called (0 or 1 each)
  outcome,             \* how the export ended, "running" until then
  rejected,            \* the promise of processExportAsync rejected
  faults,              \* the failures the remote side answers a failing
                       \* call with; <<>> for a remote side that picks one
                       \* call by call
  tasks,               \* the runs of processExportAsync that share the
                       \* process with each other, by request
  budget               \* the time since the process last issued a
                       \* conversations.replies call and the shortest time
                       \* seen between two such calls, in seconds

vars ==
  <<handler, listing, pc, words, startDate, endDate, skipThreads, cursor, pageCount, messages,
    users, channelName, allMessages, allMessagesMarkdown, totalMessageCount,
    i, trace, inflight, started, fetched, degraded, responds, files, uploads,
    api, outcome, rejected, faults, tasks, budget>>

\* threadMessages of the code: the thread roots among the sorted messages.
threadMessages == FilterRoots(messages)

\* The values the locals of processExportAsync have before they are set.
NoWindowYet ==
  /\ startDate = Null
  /\ endDate = Null
  /\ skipThreads = FALSE

NothingFetched ==
  /\ cursor = 0
  /\ pageCount = 0
  /\ messages = <<>>

NothingRendered ==
  /\ allMessages = <<>>
  /\ allMessagesMarkdown = <<>>
  /\ totalMessageCount = 0
  /\ i = 0
  /\ trace = <<>>
  /\ inflight = 0
  /\ started = <<>>
  /\ fetched = <<>>
  /\ degraded = {}

NothingWritten ==
  /\ files = [name \in {} |-> 0]
  /\ uploads = <<>>

\* One export alone in the process, no reply call issued yet, against a
\* remote side that picks its failures call by call.
NoTasks == [request \in {} |-> 0]
FreshBudget == [since |-> PreCallDelaySec, closest |-> PreCallDelaySec]
Alone ==
  /\ faults = <<>>
  /\ tasks = NoTasks
  /\ budget = FreshBudget

\* The command has arrived and its handler has not run yet.
Init ==
  /\ Alone
  /\ handler = "received"
  /\ pc = "idle"
  /\ listing = <<>>
  /\ words \in CommandTexts
  /\ NoWindowYet
  /\ NothingFetched
  /\ users = EmptyDirectory
  /\ channelName = "unknown-channel"
  /\ NothingRendered
  /\ responds = <<>>
  /\ NothingWritten
  /\ api = [history |-> 0, users |-> 0, info |-> 0]
  /\ outcome = "running"
  /\ rejected = FALSE

\* ----------------------------------------------------------------- respond
\* A respond() call: what was sent, and whether the call resolved.
\* `minutes` is the estimate the text carries, NoEstimate when it has none.
NoEstimate == -1
TimedNotice(kind, n, minutes, ok) ==
  [kind |-> kind, n |-> n, minutes |-> minutes, detail |-> "", ok |-> ok]
Notice(kind, n, ok) == TimedNotice(kind, n, NoEstimate, ok)

\* What is thrown: an Error whose message holds the substrings `has`, or a
\* value that is no Error.
Failure(has) == [isError |-> TRUE, has |-> has]
NonError == [isError |-> FALSE, has |-> {}]
ApiFailures == {Failure({}), Failure({"missing_scope"}), NonError}
LocalFailures == {Failure({})}

\* Every failure by the substrings the catch block looks for: the Errors
\* whose message holds any of them, and the thrown values that are no Error.
Substrings == {"missing_scope", "channel_not_found", "rate_limited"}
AllFailures ==
  {Failure(has) : has \in SUBSET Substrings}
    \cup {NonError, [isError |-> FALSE, has |-> {"rate_limited"}]}

\* A catch block that looks for the rate limit first.
TailoredLineRateFirst(error) ==
  IF ~error.isError THEN ""
  ELSE IF "rate_limited" \in error.has THEN "rate_limited"
  ELSE IF "missing_scope" \in error.has THEN "missing_scope"
  ELSE IF "channel_not_found" \in error.has THEN "channel_not_found"
  ELSE ""

\* The line the catch block appends to the error message.
TailoredLine(error) ==
  IF ~error.isError THEN ""
  ELSE IF "missing_scope" \in error.has THEN "missing_scope"
  ELSE IF "channel_not_found" \in error.has THEN "channel_not_found"
  ELSE IF "rate_limited" \in error.has THEN "rate_limited"
  ELSE ""

ErrorNotice(error, ok) ==
  [kind |-> "error", n |-> 0, minutes |-> NoEstimate, detail |-> TailoredLine(error),
   ok |-> ok]

\* A catch block that logs and tells the requester nothing.
CatchSilent(error, sent) ==
  /\ responds' = sent
  /\ rejected' = FALSE
  /\ outcome' = "failed"
  /\ pc' = "done"

\* The catch block of processExportAsync, entered with `error` after the
\* respond() calls `sent`: one respond() with the error message; when that
\* call fails too, the promise of processExportAsync rejects.
Catch(error, sent) ==
  \E ok \in BOOLEAN :
    /\ responds' = Append(sent, ErrorNotice(error, ok))
    /\ rejected' = ~ok
    /\ outcome' = "failed"
    /\ pc' = "done"

\* await respond(notice), then go to `next`; a respond() that fails throws.
RespondTimed(kind, n, minutes, next, how) ==
  \E ok \in BOOLEAN :
    IF ok
    THEN /\ responds' = Append(responds, TimedNotice(kind, n, minutes, TRUE))
         /\ pc' = next
         /\ outcome' = how
         /\ rejected' = rejected
    ELSE \E error \in LocalFailures :
           Catch(error, Append(responds, TimedNotice(kind, n, minutes, FALSE)))

Respond(kind, n, next, how) == RespondTimed(kind, n, NoEstimate, next, how)

\* goes on without a respond() call
Goto(next) ==
  /\ pc' = next
  /\ UNCHANGED <<responds, outcome, rejected>>

\* ------------------------------------- the command handler (221 - 236)
exportVars ==
  <<words, startDate, endDate, skipThreads, cursor, pageCount, messages,
    users, channelName, allMessages, allMessagesMarkdown, totalMessageCount,
    i, trace, inflight, started, fetched, degraded, responds, files, uploads,
    api, outcome, rejected>>

\* await ack() (223); an ack() that fails throws out of the handler.
Ack ==
  /\ handler = "received"
  /\ \E ok \in BOOLEAN : handler' = IF ok THEN "acked" ELSE "threw"
  /\ UNCHANGED <<pc, listing, faults, tasks, budget>>
  /\ UNCHANGED exportVars

\* A handler that awaits the export before it returns.
LaunchAwaited ==
  /\ handler = "acked"
  /\ handler' = "awaiting"
  /\ pc' = "start"
  /\ UNCHANGED <<listing, faults, tasks, budget>>
  /\ UNCHANGED exportVars

\* The handler's own respond() resolves (227 - 230), processExportAsync is
\* called and not awaited, a catch is hung on its promise, and the handler
\* returns (233 - 236); a respond() that fails throws out of the handler
\* before the call.  The statements of processExportAsync that run inside
\* that call, up to its first await, are the head of Validate.
Launch ==
  /\ handler = "acked"
  /\ \E ok \in BOOLEAN :
       IF ok THEN handler' = "returned" /\ pc' = "start"
       ELSE handler' = "threw" /\ pc' = pc
  /\ UNCHANGED <<listing, faults, tasks, budget>>
  /\ UNCHANGED exportVars

\* What a failing remote call throws.
Thrown == IF faults = <<>> THEN ApiFailures ELSE {faults[1]}

\* ------------------------------------------------- validation (242 - 281)
Validate ==
  /\ pc = "start"
  /\ LET args == SplitArgs(words)
     IN IF Len(args) < 2
        THEN /\ Respond("usage", 0, "done", "refused")
             /\ UNCHANGED <<words, startDate, endDate, skipThreads>>
        ELSE /\ startDate' = parseDateTime(args[1])
             /\ endDate' = parseDateTime(args[2])
             /\ skipThreads' = SkipThreadsOf(args)
             /\ IF ~startDate'.valid \/ ~endDate'.valid
                THEN /\ Respond("bad_format", 0, "done", "refused")
                     /\ UNCHANGED words
                ELSE IF ~InRange(startDate', endDate')
                THEN /\ Respond("bad_range", 0, "done", "refused")
                     /\ UNCHANGED words
                ELSE /\ Respond("exporting", 0, "history", "running")
                     /\ words' = <<>>    \* the text is read no more
  /\ UNCHANGED <<cursor, pageCount, messages, users, channelName, allMessages,
                 allMessagesMarkdown, totalMessageCount, i, trace, inflight,
                 started, fetched, degraded, files, uploads, api>>
  /\ UNCHANGED <<handler, listing, faults, tasks, budget>>

\* ------------------------------------------ primary fetch loop (290 - 324)
\* The pages the remote side may answer with: up to PageLen messages of the
\* channel, none of them fetched before (a ts is unique in its channel).
RECURSIVE DistinctTs(_)
DistinctTs(page) ==
  \/ page = <<>>
  \/ /\ \A k \in 2..Len(page) : page[k].ts # Head(page).ts
     /\ DistinctTs(Tail(page))

Pages(have) ==
  {page \in UNION {[1..n -> PrimaryMsgs] : n \in 0..PageLen} :
     /\ DistinctTs(page)
     /\ \A k \in DOMAIN page : \A j \in DOMAIN have : page[k].ts # have[j].ts
     /\ Len(have) + Len(page) <= MaxMsgs}

\* The listings the remote side may serve page by page: entry c + 1 is
\* what it answers to cursor c (to no cursor, for c = 0), and `next` is the
\* next_cursor of the answer, 0 for none.  A next_cursor may name any entry
\* but the first, an earlier one included.
ListingPages ==
  {<<>>, <<Msg(10, <<0>>, FALSE)>>, <<Msg(20, <<0>>, FALSE)>>,
   <<Msg(20, <<0>>, FALSE), Msg(10, <<0>>, FALSE)>>}
Listings ==
  UNION {[1..n -> [page : ListingPages, next : 0..(n - 1)]] : n \in 1..MaxListing}

\* A call that passes the number of the page for the cursor.
CursorSentPageNumber == pageCount

\* cursor: cursor (302)
CursorSent == cursor

\* What conversations.history may answer to the call under way.
RemoteAnswers ==
  IF listing = <<>>
  THEN {[page |-> page, next |-> IF more THEN pageCount + 1 ELSE 0] :
          page \in Pages(messages),
          more \in {b \in BOOLEAN : b => pageCount < MaxMsgs}}
  ELSE IF pageCount < MaxCalls /\ CursorSent + 1 \in DOMAIN listing
       THEN {listing[CursorSent + 1]}
       ELSE {}

HistoryPage ==
  /\ pc = "history"
  /\ api' = [api EXCEPT !.history = 1]
  /\ \E answer \in RemoteAnswers :
       LET page == answer.page
           more == answer.next # 0      \* while (cursor)
       IN \* pageCount is read by the log lines of the loop only: it is
          \* dropped when the loop ends
          /\ pageCount' = IF more THEN pageCount + 1 ELSE 0
          /\ cursor' = answer.next
          /\ IF more
             THEN /\ messages' = messages \o page
                  /\ Goto("history")
             ELSE IF IsEmptyResult(messages \o page)
             THEN /\ messages' = messages \o page
                  /\ Respond("none_found", 0, "done", "no_messages")
             ELSE /\ messages' = SortByTs(messages \o page)
                  /\ Goto("users")
  /\ UNCHANGED <<words, startDate, endDate, skipThreads, users, channelName,
                 allMessages, allMessagesMarkdown, totalMessageCount, i, trace,
                 inflight, started, fetched, degraded, files, uploads>>
  /\ UNCHANGED <<handler, listing, faults, tasks, budget>>

HistoryFail ==
  /\ pc = "history"
  /\ api' = [api EXCEPT !.history = 1]
  /\ pageCount' = 0
  /\ \E error \in Thrown : Catch(error, responds)
  /\ UNCHANGED <<words, startDate, endDate, skipThreads, cursor, messages,
                 users, channelName, allMessages, allMessagesMarkdown,
                 totalMessageCount, i, trace, inflight, started, fetched, degraded,
                 files, uploads>>
  /\ UNCHANGED <<handler, listing, faults, tasks, budget>>

\* ------------------------------------------------- getUsersInfo (125 - 140)
\* A user listing whose failure reaches the catch block of the export.
UsersListFatal ==
  /\ pc = "users"
  /\ api' = [api EXCEPT !.users = @ + 1]
  /\ \E ok \in BOOLEAN :
       IF ok THEN users' = Directory /\ Goto("info")
       ELSE users' = users /\ \E error \in Thrown : Catch(error, responds)
  /\ UNCHANGED <<words, startDate, endDate, skipThreads, cursor, pageCount,
                 messages, channelName, allMessages, allMessagesMarkdown,
                 totalMessageCount, i, trace, inflight, started, fetched, degraded,
                 files, uploads>>
  /\ UNCHANGED <<handler, listing, faults, tasks, budget>>

UsersList ==
  /\ pc = "users"
  /\ \E ok \in BOOLEAN : users' = IF ok THEN Directory ELSE EmptyDirectory
  /\ api' = [api EXCEPT !.users = @ + 1]
  /\ Goto("info")
  /\ UNCHANGED <<words, startDate, endDate, skipThreads, cursor, pageCount,
                 messages, channelName, allMessages, allMessagesMarkdown,
                 totalMessageCount, i, trace, inflight, started, fetched, degraded,
                 files, uploads>>
  /\ UNCHANGED <<handler, listing, faults, tasks, budget>>

\* ------------------------------------------ conversations.info (332 - 338)
\* The names channelInfo.channel.name may hold: Slack channel names are made
\* of lowercase letters, digits, hyphens, underscores and letters of other
\* scripts.  The second name stands for a two-letter name in such a script,
\* written by its code points.
ChannelNames == {"general", "U+958B U+767A"}

\* The characters of a channel name, or of the fallbacks of 332 and 335.
NameChars(name) ==
  CASE name = "general" -> {"g", "e", "n", "r", "a", "l"}
    [] name = "U+958B U+767A" -> {"U+958B", "U+767A"}
    [] name = ChannelId -> {"C", "0", "1"}
    [] name = "unknown-channel" ->
         {"u", "n", "k", "o", "w", "c", "h", "a", "e", "l", "-"}

ChannelInfo ==
  /\ pc = "info"
  /\ \E answer \in ChannelNames \cup {"unnamed", "failed"} :
       channelName' = IF answer \in ChannelNames THEN answer
                      ELSE IF answer = "unnamed" THEN ChannelId
                      ELSE "unknown-channel"
  /\ api' = [api EXCEPT !.info = @ + 1]
  /\ Goto("render")
  /\ UNCHANGED <<words, startDate, endDate, skipThreads, cursor, pageCount,
                 messages, users, allMessages, allMessagesMarkdown,
                 totalMessageCount, i, trace, inflight, started, fetched, degraded,
                 files, uploads>>
  /\ UNCHANGED <<handler, listing, faults, tasks, budget>>

\* ------------------------- rendering of the primary messages (342 - 366)
RenderAll(msgs, dir) == [k \in 1..Len(msgs) |-> formatMessage(msgs[k], dir, "")]
RenderAllMarkdown(msgs, dir) ==
  [k \in 1..Len(msgs) |-> formatMessageMarkdown(msgs[k], dir, "")]

Render ==
  /\ pc = "render"
  /\ totalMessageCount' = Len(messages)
  /\ allMessages' = RenderAll(messages, users)
  /\ allMessagesMarkdown' = RenderAllMarkdown(messages, users)
  /\ i' = 0
  /\ IF ProcessThreads(Len(threadMessages), skipThreads)
     THEN RespondTimed("estimate", Len(threadMessages),
                       EstimatedMinutes(Len(threadMessages)), "delay", "running")
     ELSE IF skipThreads /\ Len(threadMessages) > 0
     THEN Respond("skipped", Len(threadMessages), "mkdir", "running")
     ELSE Goto("mkdir")
  /\ UNCHANGED <<words, startDate, endDate, skipThreads, cursor, pageCount,
                 messages, users, channelName, trace, inflight, started,
                 fetched, degraded, files, uploads, api>>
  /\ UNCHANGED <<handler, listing, faults, tasks, budget>>

\* format() throws on a Date that is not valid; the throw lands in the catch.
RenderFail ==
  /\ pc = "render"
  /\ \E error \in LocalFailures : Catch(error, responds)
  /\ UNCHANGED <<words, startDate, endDate, skipThreads, cursor, pageCount,
                 messages, users, channelName, allMessages,
                 allMessagesMarkdown, totalMessageCount, i, trace, inflight,
                 started, fetched, degraded, files, uploads, api>>
  /\ UNCHANGED <<handler, listing, faults, tasks, budget>>

\* ------------------------------------ getThreadReplies (79 - 122), unfolded
Ev(e, n) == [e |-> e, n |-> n]
RetryAfters == {0, 2, 7}    \* seconds; 0: the failure carries no retryAfter

\* A count that takes the thread root in: result.messages.length.
CountAfterWithRoot(total, replies) ==
  IF replies = <<>> THEN total ELSE total + Len(replies) + 1

\* totalMessageCount += replies.length (373)
CountAfter(total, replies) == total + Len(replies)

\* A markup insertion made at the parent's own index.
MarkdownSpliceAtParent(parentIndex) == parentIndex

\* allMessages.splice(parentIndex + 1, 0, ...replyTexts) and the same index
\* for allMessagesMarkdown.
SpliceAt(parentIndex) == parentIndex + 1
MarkdownSpliceAt(parentIndex) == parentIndex + 1

\* lines 373 - 397: count, locate the parent, splice, report progress.
Merge(replies) ==
  LET msg == threadMessages[i + 1]
      n == Len(threadMessages)
      parentIndex == FindIndex(allMessages, msg.ts)
      replyTexts == [k \in 1..Len(replies) |-> formatMessage(replies[k], users, "  L-")]
      replyMarkdowns ==
        [k \in 1..Len(replies) |-> formatMessageMarkdown(replies[k], users, "  ")]
      next == IF i + 1 < n THEN "delay" ELSE "threads_done"
  IN /\ totalMessageCount' = CountAfter(totalMessageCount, replies)
     /\ fetched' = Append(fetched, Len(replies))
     /\ allMessages' =
          IF parentIndex # -1
          THEN Splice(allMessages, SpliceAt(parentIndex), replyTexts)
          ELSE allMessages
     /\ allMessagesMarkdown' =
          IF parentIndex # -1
          THEN Splice(allMessagesMarkdown, MarkdownSpliceAt(parentIndex),
                      replyMarkdowns)
          ELSE allMessagesMarkdown
     /\ IF (i + 1) % ProgressEvery = 0 /\ i < n - 1
        THEN RespondTimed("progress", i + 1, EstimatedMinutes(n - i - 1),
                          next, "running")
        ELSE Goto(next)
     /\ i' = IF pc' = "done" THEN i ELSE i + 1

\* A call that goes out without the delay.
PreCallSleepNone == Ev("sleep", 0)

\* await new Promise(resolve => setTimeout(resolve, 5000))
PreCallSleep == Ev("sleep", PreCallDelaySec)

SleepBeforeCall ==
  /\ pc = "delay"
  /\ started' = Append(started, threadMessages[i + 1].ts)
  /\ trace' = <<PreCallSleep>>
  /\ Goto("call")
  /\ UNCHANGED <<words, startDate, endDate, skipThreads, cursor, pageCount,
                 messages, users, channelName, allMessages,
                 allMessagesMarkdown, totalMessageCount, i, inflight, fetched, degraded,
                 files, uploads, api>>
  /\ UNCHANGED <<handler, listing, faults, tasks, budget>>

\* client.conversations.replies(...) is called (84)
IssueCall ==
  /\ pc = "call"
  /\ trace' = Append(trace, Ev("call", 0))
  /\ inflight' = inflight + 1
  /\ Goto("wait")
  /\ UNCHANGED <<words, startDate, endDate, skipThreads, cursor, pageCount,
                 messages, users, channelName, allMessages,
                 allMessagesMarkdown, totalMessageCount, i, started, fetched, degraded,
                 files, uploads, api>>
  /\ UNCHANGED <<handler, listing, faults, tasks, budget>>

\* the call resolves (90 - 94)
RepliesReturn ==
  /\ pc = "wait"
  /\ inflight' = inflight - 1
  /\ \E n \in ThreadSizes(threadMessages[i + 1]) :
       LET replies == SliceReplies(RepliesResult(threadMessages[i + 1], n))
       IN /\ trace' = trace \o <<Ev("ok", n), Ev("return", Len(replies))>>
          /\ Merge(replies)
  /\ UNCHANGED degraded
  /\ UNCHANGED <<words, startDate, endDate, skipThreads, cursor, pageCount,
                 messages, users, channelName, started, files, uploads, api>>
  /\ UNCHANGED <<handler, listing, faults, tasks, budget>>

\* A handler that backs off and retries after any failure.
RepliesFailRetries ==
  /\ pc = "wait"
  /\ inflight' = inflight - 1
  /\ trace' = Append(trace, Ev("fail", 0))
  /\ Goto("backoff")
  /\ UNCHANGED <<words, startDate, endDate, skipThreads, cursor, pageCount,
                 messages, users, channelName, allMessages,
                 allMessagesMarkdown, totalMessageCount, i, started, fetched,
                 degraded, files, uploads, api>>
  /\ UNCHANGED <<handler, listing, faults, tasks, budget>>

\* the call fails, not with the rate-limit code (95 - 99, 120)
RepliesFail ==
  /\ pc = "wait"
  /\ inflight' = inflight - 1
  /\ trace' = trace \o <<Ev("fail", 0), Ev("return", 0)>>
  /\ degraded' = degraded \cup {"failed"}
  /\ Merge(<<>>)
  /\ UNCHANGED <<words, startDate, endDate, skipThreads, cursor, pageCount,
                 messages, users, channelName, started, files, uploads, api>>
  /\ UNCHANGED <<handler, listing, faults, tasks, budget>>

\* the call fails with code slack_webapi_rate_limited (99 - 101)
RepliesRateLimited ==
  /\ pc = "wait"
  /\ inflight' = inflight - 1
  /\ \E retryAfter \in RetryAfters :
       trace' = Append(trace, Ev("rate_limited", retryAfter))
  /\ Goto("backoff")
  /\ UNCHANGED <<words, startDate, endDate, skipThreads, cursor, pageCount,
                 messages, users, channelName, allMessages,
                 allMessagesMarkdown, totalMessageCount, i, started, fetched, degraded,
                 files, uploads, api>>
  /\ UNCHANGED <<handler, listing, faults, tasks, budget>>

\* await new Promise(resolve => setTimeout(resolve, retryAfter * 1000)) (102)
SleepRetryAfter ==
  /\ pc = "backoff"
  /\ trace' = Append(trace, Ev("sleep", RetryWait(trace[Len(trace)].n)))
  /\ Goto("retry")
  /\ UNCHANGED <<words, startDate, endDate, skipThreads, cursor, pageCount,
                 messages, users, channelName, allMessages,
                 allMessagesMarkdown, totalMessageCount, i, inflight, started,
                 fetched, degraded, files, uploads, api>>
  /\ UNCHANGED <<handler, listing, faults, tasks, budget>>

\* the retry is called (106)
IssueRetry ==
  /\ pc = "retry"
  /\ trace' = Append(trace, Ev("call", 0))
  /\ inflight' = inflight + 1
  /\ Goto("retry_wait")
  /\ UNCHANGED <<words, startDate, endDate, skipThreads, cursor, pageCount,
                 messages, users, channelName, allMessages,
                 allMessagesMarkdown, totalMessageCount, i, started, fetched, degraded,
                 files, uploads, api>>
  /\ UNCHANGED <<handler, listing, faults, tasks, budget>>

\* the retry resolves (112 - 114, 120)
RetryReturn ==
  /\ pc = "retry_wait"
  /\ inflight' = inflight - 1
  /\ \E n \in ThreadSizes(threadMessages[i + 1]) :
       LET replies == SliceReplies(RepliesResult(threadMessages[i + 1], n))
       IN /\ trace' = trace \o <<Ev("ok", n), Ev("return", Len(replies))>>
          /\ Merge(replies)
  /\ UNCHANGED degraded
  /\ UNCHANGED <<words, startDate, endDate, skipThreads, cursor, pageCount,
                 messages, users, channelName, started, files, uploads, api>>
  /\ UNCHANGED <<handler, listing, faults, tasks, budget>>

\* A retry without its own try/catch: its failure leaves getThreadReplies
\* and lands in the catch of processExportAsync.
RetryFailThrows ==
  /\ pc = "retry_wait"
  /\ inflight' = inflight - 1
  /\ \E how \in {"fail", "rate_limited"} : trace' = Append(trace, Ev(how, 0))
  /\ \E error \in Thrown : Catch(error, responds)
  /\ UNCHANGED <<words, startDate, endDate, skipThreads, cursor, pageCount,
                 messages, users, channelName, allMessages,
                 allMessagesMarkdown, totalMessageCount, i, started, fetched,
                 degraded, files, uploads, api>>
  /\ UNCHANGED <<handler, listing, faults, tasks, budget>>

\* the retry fails, with the rate-limit code or any other (115 - 120)
RetryFail ==
  /\ pc = "retry_wait"
  /\ inflight' = inflight - 1
  /\ \E how \in {"fail", "rate_limited"} :
       trace' = trace \o <<Ev(how, 0), Ev("return", 0)>>
  /\ degraded' = degraded \cup {"retry_failed"}
  /\ Merge(<<>>)
  /\ UNCHANGED <<words, startDate, endDate, skipThreads, cursor, pageCount,
                 messages, users, channelName, started, files, uploads, api>>
  /\ UNCHANGED <<handler, listing, faults, tasks, budget>>

\* the notice after the loop (402 - 405); the trace of the last invocation
\* is dropped with the loop.
ThreadsDone ==
  /\ pc = "threads_done"
  /\ trace' = <<>>
  /\ Respond("threads_done", Len(threadMessages), "mkdir", "running")
  /\ UNCHANGED <<words, startDate, endDate, skipThreads, cursor, pageCount,
                 messages, users, channelName, allMessages,
                 allMessagesMarkdown, totalMessageCount, i, inflight, started,
                 fetched, degraded, files, uploads, api>>
  /\ UNCHANGED <<handler, listing, faults, tasks, budget>>

\* --------------------------------------------- write and deliver (414 - 464)
Header(style) ==
  [style |-> style, channel |-> channelName, from |-> JstDay(startDate.at),
   to |-> JstDay(endDate.at), count |-> totalMessageCount]
contentText == [header |-> Header("text"), lines |-> allMessages]
contentMarkdown == [header |-> Header("markdown"), lines |-> allMessagesMarkdown]

FileName(ext) ==
  [channel |-> channelName, from |-> JstDay(startDate.at),
   to |-> JstDay(endDate.at), ext |-> ext]
txtFileName == FileName("txt")

\* A markup artifact written under the plain artifact's name.
mdFileNameAsTxt == FileName("txt")

mdFileName == FileName("md")

\* The characters of `${channelName}_${yyyyMMdd}-${yyyyMMdd}.${ext}` before
\* the extension.
DigitChars == {"0", "1", "2", "3", "4", "5", "6", "7", "8", "9"}
BaseNameChars(name) == NameChars(name.channel) \cup {"_", "-"} \cup DigitChars

\* The characters of the class [a-zA-Z0-9_-].
LowerChars ==
  {"a", "b", "c", "d", "e", "f", "g", "h", "i", "j", "k", "l", "m", "n", "o",
   "p", "q", "r", "s", "t", "u", "v", "w", "x", "y", "z"}
UpperChars ==
  {"A", "B", "C", "D", "E", "F", "G", "H", "I", "J", "K", "L", "M", "N", "O",
   "P", "Q", "R", "S", "T", "U", "V", "W", "X", "Y", "Z"}
SafeChars == LowerChars \cup UpperChars \cup DigitChars \cup {"_", "-"}

\* filename.match(/^[a-zA-Z0-9_-]+\.(txt|md)$/) of GET /download/:filename:
\* anything else is answered 400.
DownloadAccepts(name) ==
  /\ BaseNameChars(name) \subseteq SafeChars
  /\ name.ext \in {"txt", "md"}

\* fs.writeFile(path, content): creates the file or replaces its content.
WriteFile(dir, name, content) ==
  [f \in DOMAIN dir \cup {name} |-> IF f = name THEN content ELSE dir[f]]

EnsureDir ==
  /\ pc = "mkdir"
  /\ \E ok \in BOOLEAN :
       IF ok THEN Goto("write_txt")
       ELSE \E error \in LocalFailures : Catch(error, responds)
  /\ UNCHANGED <<words, startDate, endDate, skipThreads, cursor, pageCount,
                 messages, users, channelName, allMessages,
                 allMessagesMarkdown, totalMessageCount, i, trace, inflight,
                 started, fetched, degraded, files, uploads, api>>
  /\ UNCHANGED <<handler, listing, faults, tasks, budget>>

WriteTxt ==
  /\ pc = "write_txt"
  /\ \E ok \in BOOLEAN :
       IF ok
       THEN /\ files' = WriteFile(files, txtFileName, contentText)
            /\ Goto("write_md")
       ELSE /\ UNCHANGED files
            /\ \E error \in LocalFailures : Catch(error, responds)
  /\ UNCHANGED <<words, startDate, endDate, skipThreads, cursor, pageCount,
                 messages, users, channelName, allMessages,
                 allMessagesMarkdown, totalMessageCount, i, trace, inflight,
                 started, fetched, degraded, uploads, api>>
  /\ UNCHANGED <<handler, listing, faults, tasks, budget>>

WriteMd ==
  /\ pc = "write_md"
  /\ \E ok \in BOOLEAN :
       IF ok
       THEN /\ files' = WriteFile(files, mdFileName, contentMarkdown)
            /\ Goto("upload")
       ELSE /\ UNCHANGED files
            /\ \E error \in LocalFailures : Catch(error, responds)
  /\ UNCHANGED <<words, startDate, endDate, skipThreads, cursor, pageCount,
                 messages, users, channelName, allMessages,
                 allMessagesMarkdown, totalMessageCount, i, trace, inflight,
                 started, fetched, degraded, uploads, api>>
  /\ UNCHANGED <<handler, listing, faults, tasks, budget>>

\* client.files.uploadV2({file: await fs.readFile(txtFilePath), ...})
Upload ==
  /\ pc = "upload"
  /\ \E ok \in BOOLEAN :
       /\ uploads' = Append(uploads, [file |-> files[txtFileName],
                                      filename |-> txtFileName,
                                      count |-> totalMessageCount, ok |-> ok])
       /\ IF ok
          THEN /\ pc' = "done"
               /\ outcome' = "delivered"
               /\ UNCHANGED <<responds, rejected>>
          ELSE \E error \in Thrown : Catch(error, responds)
  /\ UNCHANGED <<words, startDate, endDate, skipThreads, cursor, pageCount,
                 messages, users, channelName, allMessages,
                 allMessagesMarkdown, totalMessageCount, i, trace, inflight,
                 started, fetched, degraded, files, api>>
  /\ UNCHANGED <<handler, listing, faults, tasks, budget>>

Next ==
  \/ Ack
  \/ Launch
  \/ Validate
  \/ HistoryPage
  \/ HistoryFail
  \/ UsersList
  \/ ChannelInfo
  \/ Render
  \/ RenderFail
  \/ SleepBeforeCall
  \/ IssueCall
  \/ RepliesReturn
  \/ RepliesFail
  \/ RepliesRateLimited
  \/ SleepRetryAfter
  \/ IssueRetry
  \/ RetryReturn
  \/ RetryFail
  \/ ThreadsDone
  \/ EnsureDir
  \/ WriteTxt
  \/ WriteMd
  \/ Upload

Spec == Init /\ [][Next]_vars

\* Every remote call, timer and file operation the export waits on comes
\* back: a step that can be taken is taken.
SpecLive == Spec /\ WF_vars(Next)

\* ------------------------------------------------- further specifications
\* The command 'D1 D2' has been accepted: the handler has returned and the
\* window and the first notice of processExportAsync are in place.
Accepted ==
  /\ handler = "returned"
  /\ words = <<>>
  /\ startDate = parseDateTime(DateTok(1))
  /\ endDate = parseDateTime(DateTok(2))
  /\ responds = <<Notice("exporting", 0, TRUE)>>
  /\ outcome = "running"
  /\ rejected = FALSE

\* The primary fetch has ended with the sorted messages `msgs`, and
\* getUsersInfo and conversations.info have answered.
Fetched(msgs, dir) ==
  /\ Alone
  /\ Accepted
  /\ listing = <<>>
  /\ cursor = 0
  /\ pageCount = 0
  /\ messages = msgs
  /\ users = dir
  /\ channelName = "general"
  /\ api = [history |-> 1, users |-> 1, info |-> 1]
  /\ NothingRendered
  /\ NothingWritten

\* The primary fetch loop against a listing served page by page.
InitFetch ==
  /\ Alone
  /\ pc = "history"
  /\ listing \in Listings
  /\ Accepted
  /\ skipThreads = FALSE
  /\ NothingFetched
  /\ users = EmptyDirectory
  /\ channelName = "unknown-channel"
  /\ NothingRendered
  /\ NothingWritten
  /\ api = [history |-> 0, users |-> 0, info |-> 0]

NextFetch ==
  \/ HistoryPage
  \/ HistoryFail

SpecFetch == InitFetch /\ [][NextFetch]_vars

\* The resolver on command texts of two words, times of day included.
Hours == {0, 8, 9, 23}
RichTokens ==
  {DateTok(d) : d \in Days} \cup {DateTimeTok(d, h) : d \in Days, h \in Hours}
    \cup {TimeTok, JunkTok}
ResolverTexts == [1..2 -> RichTokens]

InitResolve ==
  /\ Alone
  /\ handler = "returned"
  /\ pc = "start"
  /\ listing = <<>>
  /\ words \in ResolverTexts
  /\ NoWindowYet
  /\ NothingFetched
  /\ users = EmptyDirectory
  /\ channelName = "unknown-channel"
  /\ NothingRendered
  /\ responds = <<>>
  /\ NothingWritten
  /\ api = [history |-> 0, users |-> 0, info |-> 0]
  /\ outcome = "running"
  /\ rejected = FALSE

NextResolve == Validate

SpecResolve == InitResolve /\ [][NextResolve]_vars

\* The rendering of messages by any author against any directory.
AuthoredHistories ==
  UNION {{[k \in 1..n |-> MsgBy(10 * k, by[k])] : by \in [1..n -> Authors]} :
           n \in 1..MaxAuthored}

InitRender ==
  /\ pc = "render"
  /\ skipThreads = FALSE
  /\ \E msgs \in AuthoredHistories, dir \in Directories : Fetched(msgs, dir)

NextRender ==
  \/ Render
  \/ RenderFail

SpecRender == InitRender /\ [][NextRender]_vars

\* The thread loop on the long channel, every call answered at once.
InitProgress ==
  /\ pc = "render"
  /\ skipThreads = FALSE
  /\ \E n \in 1..MaxThreads : Fetched(LongChannel(n), Directory)

NextProgress ==
  \/ Render
  \/ SleepBeforeCall
  \/ IssueCall
  \/ RepliesReturn
  \/ ThreadsDone

SpecProgress == InitProgress /\ [][NextProgress]_vars

\* The fatal path on every failure the first history call may throw.
InitCatch ==
  /\ pc = "history"
  /\ listing = <<>>
  /\ faults \in {<<error>> : error \in AllFailures}
  /\ tasks = NoTasks
  /\ budget = FreshBudget
  /\ Accepted
  /\ skipThreads \in BOOLEAN
  /\ NothingFetched
  /\ users = EmptyDirectory
  /\ channelName = "unknown-channel"
  /\ NothingRendered
  /\ NothingWritten
  /\ api = [history |-> 0, users |-> 0, info |-> 0]

NextCatch ==
  \/ HistoryPage
  \/ HistoryFail

SpecCatch == InitCatch /\ [][NextCatch]_vars

\* Two runs of processExportAsync in one process.  The handler starts a run
\* for every command and awaits none (233), so the runs of two commands
\* interleave at their awaits; they share the exports directory and the
\* rate budget of the calling identity.  A run is followed from its launch
\* through its reply calls, its writes and its upload; its notices and the
\* steps before the thread loop, which touch nothing shared, are those of
\* Spec and are taken in one step here.
Requests == {"A", "B"}
TaskChannels == {"general", "random"}

\* The history both runs read: thread roots of one reply each, the channel
\* "general" MaxTaskRoots of them and the channel "random" one.
TaskHistory(channel) ==
  LongChannel(IF channel = "general" THEN MaxTaskRoots ELSE 1)

\* A command that has arrived for `channel`, its run not started.
Arrived(channel, skip) ==
  [pc |-> "idle", channel |-> channel, skip |-> skip, timer |-> 0, next |-> 0,
   count |-> 0, lines |-> <<>>, markdown |-> <<>>]

TaskRoots(task) == FilterRoots(TaskHistory(task.channel))

\* headerText + allMessages.join, headerMarkdown + allMessagesMarkdown.join
\* (421 - 435) of a run; both commands name the window of Accepted.
TaskHeader(task, style) ==
  [style |-> style, channel |-> task.channel,
   from |-> JstDay(parseDateTime(DateTok(1)).at),
   to |-> JstDay(parseDateTime(DateTok(2)).at), count |-> task.count]
TaskContentText(task) ==
  [header |-> TaskHeader(task, "text"), lines |-> task.lines]
TaskContentMarkdown(task) ==
  [header |-> TaskHeader(task, "markdown"), lines |-> task.markdown]

\* `${channelName}_${yyyyMMdd}-${yyyyMMdd}.${ext}` (439 - 441) of a run.
TaskFileName(task, ext) ==
  [channel |-> task.channel, from |-> JstDay(parseDateTime(DateTok(1)).at),
   to |-> JstDay(parseDateTime(DateTok(2)).at), ext |-> ext]

\* What the tasks leave alone: the single run of Spec.
TaskFrame ==
  UNCHANGED <<handler, listing, pc, words, startDate, endDate, skipThreads,
              cursor, pageCount, messages, users, channelName, allMessages,
              allMessagesMarkdown, totalMessageCount, i, trace, inflight,
              started, fetched, degraded, responds, api, outcome, rejected,
              faults>>

\* Lines 242 - 366 of a run: the messages are fetched and rendered, and the
\* run stands before its first getThreadReplies, whose setTimeout is armed
\* (82), or before its writes when no thread is processed.
TaskLaunch(r) ==
  LET task == tasks[r]
      msgs == TaskHistory(task.channel)
      process == ProcessThreads(Len(FilterRoots(msgs)), task.skip)
  IN /\ task.pc = "idle"
     /\ tasks' = [tasks EXCEPT ![r] =
          [task EXCEPT !.pc = IF process THEN "sleeping" ELSE "write_txt",
                       !.timer = IF process THEN PreCallDelaySec ELSE 0,
                       !.count = Len(msgs),
                       !.lines = RenderAll(msgs, Directory),
                       !.markdown = RenderAllMarkdown(msgs, Directory)]]
     /\ UNCHANGED <<files, uploads, budget>>
     /\ TaskFrame

\* Time passes until the first armed timer of the process is due.
Sleepers == {r \in DOMAIN tasks : tasks[r].pc \in {"sleeping", "backoff"}}
NextDue == CHOOSE d \in {tasks[r].timer : r \in Sleepers} :
             \A r \in Sleepers : d <= tasks[r].timer
CapAtDelay(seconds) ==
  IF seconds > PreCallDelaySec THEN PreCallDelaySec ELSE seconds
TimePasses ==
  /\ Sleepers # {}
  /\ NextDue > 0
  /\ tasks' = [r \in DOMAIN tasks |->
                 IF r \in Sleepers
                 THEN [tasks[r] EXCEPT !.timer = @ - NextDue]
                 ELSE tasks[r]]
  /\ budget' = [budget EXCEPT !.since = CapAtDelay(@ + NextDue)]
  /\ UNCHANGED <<files, uploads>>
  /\ TaskFrame

\* A conversations.replies call goes out: the budget notes the time since
\* the call before it.
Spend ==
  [since |-> 0,
   closest |-> IF budget.since < budget.closest THEN budget.since
               ELSE budget.closest]

\* The timer of 82 is due: client.conversations.replies (84).
TaskIssueCall(r) ==
  /\ tasks[r].pc = "sleeping"
  /\ tasks[r].timer = 0
  /\ tasks' = [tasks EXCEPT ![r].pc = "wait"]
  /\ budget' = Spend
  /\ UNCHANGED <<files, uploads>>
  /\ TaskFrame

\* getThreadReplies has returned `replies`: lines 373 - 383, then the next
\* root with its timer armed, or the writes.
TaskMerge(r, replies) ==
  LET task == tasks[r]
      roots == TaskRoots(task)
      msg == roots[task.next + 1]
      parentIndex == FindIndex(task.lines, msg.ts)
      replyTexts ==
        [k \in 1..Len(replies) |-> formatMessage(replies[k], Directory, "  L-")]
      replyMarkdowns ==
        [k \in 1..Len(replies) |->
           formatMessageMarkdown(replies[k], Directory, "  ")]
      more == task.next + 1 < Len(roots)
  IN tasks' = [tasks EXCEPT ![r] =
       [task EXCEPT
          !.pc = IF more THEN "sleeping" ELSE "write_txt",
          !.timer = IF more THEN PreCallDelaySec ELSE 0,
          !.next = @ + 1,
          !.count = CountAfter(@, replies),
          !.lines = IF parentIndex # -1
                    THEN Splice(@, SpliceAt(parentIndex), replyTexts) ELSE @,
          !.markdown = IF parentIndex # -1
                       THEN Splice(@, MarkdownSpliceAt(parentIndex),
                                   replyMarkdowns)
                       ELSE @]]

\* The call answers (90 - 94), or fails with something else than the rate
\* limit (119 - 120).
TaskRepliesReturn(r) ==
  /\ tasks[r].pc = "wait"
  /\ \E ok \in BOOLEAN :
       LET root == TaskRoots(tasks[r])[tasks[r].next + 1]
       IN \E n \in ThreadSizes(root) :
            TaskMerge(r, IF ok THEN SliceReplies(RepliesResult(root, n))
                         ELSE <<>>)
  /\ UNCHANGED <<files, uploads, budget>>
  /\ TaskFrame

\* The call fails with slack_webapi_rate_limited: the timer of 102 is armed
\* with retryAfter || 60.
TaskRateLimited(r) ==
  /\ tasks[r].pc = "wait"
  /\ \E retryAfter \in RetryAfters :
       tasks' = [tasks EXCEPT ![r].pc = "backoff",
                              ![r].timer = RetryWait(retryAfter)]
  /\ UNCHANGED <<files, uploads, budget>>
  /\ TaskFrame

\* The timer of 102 is due: the retry (106).
TaskIssueRetry(r) ==
  /\ tasks[r].pc = "backoff"
  /\ tasks[r].timer = 0
  /\ tasks' = [tasks EXCEPT ![r].pc = "retry_wait"]
  /\ budget' = Spend
  /\ UNCHANGED <<files, uploads>>
  /\ TaskFrame

\* The retry answers (112 - 114) or fails (115 - 117).
TaskRetryReturn(r) ==
  /\ tasks[r].pc = "retry_wait"
  /\ \E ok \in BOOLEAN :
       LET root == TaskRoots(tasks[r])[tasks[r].next + 1]
       IN \E n \in ThreadSizes(root) :
            TaskMerge(r, IF ok THEN SliceReplies(RepliesResult(root, n))
                         ELSE <<>>)
  /\ UNCHANGED <<files, uploads, budget>>
  /\ TaskFrame

\* ensureExportsDir and fs.writeFile(txtFilePath, contentText) (438 - 445);
\* a failure ends the run in the catch block.
TaskWriteTxt(r) ==
  /\ tasks[r].pc = "write_txt"
  /\ \E ok \in BOOLEAN :
       IF ok
       THEN /\ files' = WriteFile(files, TaskFileName(tasks[r], "txt"),
                                  TaskContentText(tasks[r]))
            /\ tasks' = [tasks EXCEPT ![r].pc = "write_md"]
       ELSE /\ UNCHANGED files
            /\ tasks' = [tasks EXCEPT ![r].pc = "failed"]
  /\ UNCHANGED <<uploads, budget>>
  /\ TaskFrame

\* fs.writeFile(mdFilePath, contentMarkdown) (446)
TaskWriteMd(r) ==
  /\ tasks[r].pc = "write_md"
  /\ \E ok \in BOOLEAN :
       IF ok
       THEN /\ files' = WriteFile(files, TaskFileName(tasks[r], "md"),
                                  TaskContentMarkdown(tasks[r]))
            /\ tasks' = [tasks EXCEPT ![r].pc = "upload"]
       ELSE /\ UNCHANGED files
            /\ tasks' = [tasks EXCEPT ![r].pc = "failed"]
  /\ UNCHANGED <<uploads, budget>>
  /\ TaskFrame

\* files.uploadV2({file: await fs.readFile(txtFilePath), ...}) (452 - 464):
\* the file is read back from the directory as it is now.
TaskUpload(r) ==
  /\ tasks[r].pc = "upload"
  /\ \E ok \in BOOLEAN :
       /\ uploads' =
            Append(uploads,
                   [by |-> r,
                    file |-> files[TaskFileName(tasks[r], "txt")],
                    filename |-> TaskFileName(tasks[r], "txt"),
                    count |-> tasks[r].count, ok |-> ok])
       /\ tasks' = [tasks EXCEPT ![r].pc = IF ok THEN "done" ELSE "failed"]
  /\ UNCHANGED <<files, budget>>
  /\ TaskFrame

\* Two commands have arrived, "A" for the channel "general" and "B" for
\* that channel or for another, each with or without --no-threads.
InitTwo ==
  /\ handler = "returned"
  /\ pc = "idle"
  /\ listing = <<>>
  /\ words = <<>>
  /\ NoWindowYet
  /\ NothingFetched
  /\ users = EmptyDirectory
  /\ channelName = "unknown-channel"
  /\ NothingRendered
  /\ responds = <<>>
  /\ NothingWritten
  /\ api = [history |-> 0, users |-> 0, info |-> 0]
  /\ outcome = "running"
  /\ rejected = FALSE
  /\ faults = <<>>
  /\ budget = FreshBudget
  /\ \E channel \in TaskChannels, skipA \in BOOLEAN, skipB \in BOOLEAN :
       tasks = [r \in Requests |->
                  IF r = "A" THEN Arrived("general", skipA)
                  ELSE Arrived(channel, skipB)]

NextTwo ==
  \/ TimePasses
  \/ \E r \in Requests : TaskLaunch(r)
  \/ \E r \in Requests : TaskIssueCall(r)
  \/ \E r \in Requests : TaskRepliesReturn(r)
  \/ \E r \in Requests : TaskRateLimited(r)
  \/ \E r \in Requests : TaskIssueRetry(r)
  \/ \E r \in Requests : TaskRetryReturn(r)
  \/ \E r \in Requests : TaskWriteTxt(r)
  \/ \E r \in Requests : TaskWriteMd(r)
  \/ \E r \in Requests : TaskUpload(r)

SpecTwo == InitTwo /\ [][NextTwo]_vars

\* ================================================================== claims
RECURSIVE SumSeq(_)
SumSeq(q) == IF q = <<>> THEN 0 ELSE Head(q) + SumSeq(Tail(q))

\* The position of message m among the thread roots, 0 when it is none.
RootPos(m) ==
  IF \E j \in DOMAIN threadMessages : threadMessages[j].ts = m.ts
  THEN CHOOSE j \in DOMAIN threadMessages : threadMessages[j].ts = m.ts
  ELSE 0

\* The replies getThreadReplies returned for the j-th thread root.
RepliesFetchedFor(j) ==
  IF j \in DOMAIN fetched
  THEN [r \in 1..fetched[j] |-> ReplyMsg(threadMessages[j].ts, r)]
  ELSE <<>>

\* The transcript in which each root is followed at once by its replies.
RECURSIVE ThreadedPlain(_)
ThreadedPlain(msgs) ==
  IF msgs = <<>> THEN <<>>
  ELSE LET m == Head(msgs)
           rs == RepliesFetchedFor(RootPos(m))
       IN <<formatMessage(m, users, "")>>
          \o [r \in 1..Len(rs) |-> formatMessage(rs[r], users, "  L-")]
          \o ThreadedPlain(Tail(msgs))

RECURSIVE ThreadedMarkdown(_)
ThreadedMarkdown(msgs) ==
  IF msgs = <<>> THEN <<>>
  ELSE LET m == Head(msgs)
           rs == RepliesFetchedFor(RootPos(m))
       IN <<formatMessageMarkdown(m, users, "")>>
          \o [r \in 1..Len(rs) |-> formatMessageMarkdown(rs[r], users, "  ")]
          \o ThreadedMarkdown(Tail(msgs))

AllThreadsProcessed ==
  /\ ~skipThreads
  /\ fetched # <<>>
  /\ Len(fetched) = Len(threadMessages)

\* C1: once every thread root has been processed, the rendered replies of
\* each root R stand, in fetch order, right after R's line and before the
\* line of the next top-level message, in the plain and in the markup
\* transcript.
C1_RepliesFollowParent ==
  AllThreadsProcessed =>
    /\ allMessages = ThreadedPlain(messages)
    /\ allMessagesMarkdown = ThreadedMarkdown(messages)

\* C2: from the rendering on, the running count is the number of primary
\* messages plus the sizes of the reply sets returned so far; with
\* --no-threads nothing is fetched and it stays the number of primary
\* messages; the headers written and the caption uploaded carry that count.
C2_CountIsPrimaryPlusFetched ==
  /\ allMessages # <<>> => totalMessageCount = Len(messages) + SumSeq(fetched)
  /\ skipThreads => fetched = <<>>
  /\ \A f \in DOMAIN files :
       files[f].header.count = Len(messages) + SumSeq(fetched)
  /\ \A k \in DOMAIN uploads :
       uploads[k].count = Len(messages) + SumSeq(fetched)

C2_Witness ==
  /\ outcome = "delivered"
  /\ Len(fetched) = 2
  /\ fetched[1] # fetched[2]
  /\ SumSeq(fetched) = 3
  /\ uploads[1].count = 5

\* The positions of the conversations.replies calls in the trace of the
\* getThreadReplies invocation under way.
CallPositions == {p \in DOMAIN trace : trace[p].e = "call"}

\* The seconds slept between the call before position p (or the start of
\* the invocation) and position p.
RECURSIVE SleptBefore(_)
SleptBefore(p) ==
  IF p = 1 \/ trace[p - 1].e = "call" THEN 0
  ELSE (IF trace[p - 1].e = "sleep" THEN trace[p - 1].n ELSE 0) + SleptBefore(p - 1)

\* C3: one invocation of getThreadReplies makes at most two calls; the
\* second follows a rate-limit failure of the first and exactly one sleep of
\* the failure's retry-after (60 s when it carries none); whatever the
\* second call gives, the invocation returns without a third.
C3_AtMostOneRetry ==
  /\ CallPositions \subseteq {2, 5}
  /\ (Len(trace) >= 3 /\ trace[3].e \in {"ok", "fail"}) =>
       /\ Len(trace) = 4
       /\ trace[4].e = "return"
  /\ 5 \in CallPositions =>
       /\ trace[3].e = "rate_limited"
       /\ trace[4] = Ev("sleep", IF trace[3].n = 0 THEN 60 ELSE trace[3].n)
  /\ Len(trace) >= 6 =>
       /\ trace[6].e \in {"ok", "fail", "rate_limited"}
       /\ Len(trace) = 7
       /\ trace[7].e = "return"

C3_Witness ==
  /\ Len(trace) = 7
  /\ trace[3] = Ev("rate_limited", 0)
  /\ trace[6].e = "rate_limited"
  /\ Len(started) = 2

\* C4: a first call that fails without the rate-limit code is not retried,
\* the invocation returns no reply, and the export goes on to the next
\* thread or to the end of the loop.
C4_GenericFailureIsEmptyAndNotFatal ==
  (Len(trace) >= 3 /\ trace[3].e = "fail") =>
    /\ trace = <<Ev("sleep", 5), Ev("call", 0), Ev("fail", 0), Ev("return", 0)>>
    /\ Len(fetched) = Len(started)
    /\ fetched[Len(fetched)] = 0
    /\ outcome = "running"
    /\ pc = IF Len(fetched) < Len(threadMessages) THEN "delay" ELSE "threads_done"

C4_Witness ==
  /\ outcome = "delivered"
  /\ degraded = {"failed"}
  /\ fetched = <<0, 2>>
  /\ Len(uploads) = 1
  /\ DOMAIN files = {txtFileName, mdFileName}

\* C5: when the first call is rate-limited and the retry fails too, with
\* any failure, the invocation returns no reply instead of throwing, and the
\* export goes on to the next thread or to the end of the loop.
C5_FailedRetryIsEmptyAndNotFatal ==
  (Len(trace) >= 6 /\ trace[6].e \in {"fail", "rate_limited"}) =>
    /\ trace[3].e = "rate_limited"
    /\ Len(trace) = 7
    /\ trace[7] = Ev("return", 0)
    /\ Len(fetched) = Len(started)
    /\ fetched[Len(fetched)] = 0
    /\ outcome = "running"
    /\ pc = IF Len(fetched) < Len(threadMessages) THEN "delay" ELSE "threads_done"

C5_Witness ==
  /\ outcome = "delivered"
  /\ degraded = {"retry_failed"}
  /\ fetched = <<2, 0>>
  /\ totalMessageCount = 4
  /\ Len(uploads) = 1

\* C6, as claimed: every conversations.replies call, the retry included,
\* comes at least 5 seconds after the call before it.
C6_EveryCallAfterFiveSeconds ==
  \A p \in CallPositions : SleptBefore(p) >= 5

\* C6, amended: the first call of an invocation comes after the 5-second
\* delay; the retry comes after the retry-after sleep alone (60 s when the
\* failure carries none), which may be shorter than 5 seconds.
C6_FirstCallAfterFiveSeconds ==
  /\ trace # <<>> => trace[1] = Ev("sleep", 5)
  /\ \A p \in CallPositions :
       SleptBefore(p) = IF p = 2 THEN 5
                        ELSE IF trace[3].n = 0 THEN 60 ELSE trace[3].n

C6_Witness ==
  /\ 5 \in CallPositions
  /\ trace[3] = Ev("rate_limited", 2)
  /\ SleptBefore(5) = 2
  /\ pc = "retry_wait"

\* C7: the thread roots are taken one at a time in ascending ts order; the
\* fetch for a root starts after the fetch, count and splice of the root
\* before it are done, and at most one conversations.replies call is out.
C7_ThreadsOneAtATimeInTsOrder ==
  /\ inflight \in {0, 1}
  /\ inflight = 1 <=> pc \in {"wait", "retry_wait"}
  /\ \A a, b \in DOMAIN started : a < b => started[a] < started[b]
  /\ \A k \in DOMAIN started :
       /\ \E m \in DOMAIN messages :
            messages[m].ts = started[k] /\ messages[m].thread_ts = started[k]
       /\ \A m \in DOMAIN messages :
            (messages[m].thread_ts = messages[m].ts /\ messages[m].ts < started[k])
              => \E j \in 1..(k - 1) : started[j] = messages[m].ts
  /\ Len(fetched) <= Len(started)
  /\ Len(started) <= Len(fetched) + 1
  /\ pc \in {"call", "wait", "backoff", "retry", "retry_wait"}
       <=> Len(started) = Len(fetched) + 1
  /\ pc \in {"threads_done", "mkdir", "write_txt", "write_md", "upload"} /\ ~skipThreads
       => Len(started) = Len(threadMessages)

C7_Witness ==
  /\ pc = "wait"
  /\ inflight = 1
  /\ started = <<10, 20>>
  /\ fetched = <<1>>

\* C8: a progress notification that could not be delivered does not abort
\* the export.
C8_NotifyFailureDoesNotAbort ==
  \A k \in DOMAIN responds :
    (responds[k].kind \in {"estimate", "progress", "threads_done", "skipped"}
       /\ ~responds[k].ok)
      => outcome # "failed"

ErrorNotices(sent) == Cardinality({k \in DOMAIN sent : sent[k].kind = "error"})

\* C9: a failure of the primary fetch, of the rendering or of a write ends
\* the export in the catch block: the error message is sent once, no upload
\* has been made, and the export takes no further step.
C9_FailureStep ==
  (outcome = "running" /\ outcome' = "failed"
     /\ pc \in {"history", "render", "mkdir", "write_txt", "write_md"}) =>
    /\ pc' = "done"
    /\ ErrorNotices(responds') = 1
    /\ responds'[Len(responds')].kind = "error"
    /\ uploads' = <<>>

C9_FailureReportedOnceNoDelivery ==
  /\ [][C9_FailureStep]_vars
  /\ [](outcome = "failed" =>
         /\ pc = "done"
         /\ ~ENABLED Next
         /\ ErrorNotices(responds) = 1
         /\ \A k \in DOMAIN uploads : ~uploads[k].ok)

C9_Witness ==
  /\ outcome = "failed"
  /\ DOMAIN files = {txtFileName}
  /\ uploads = <<>>
  /\ ErrorNotices(responds) = 1
  /\ fetched # <<>>

\* The command text names no window: fewer than two words, a word that is
\* no date, or a start that is not before the end.
IsDateWord(tok) == tok.shape \in {"D", "DT"}
InstantOf(tok) == tok.day * 24 + tok.hour
NoWindow(text) ==
  \/ Len(text) < 2
  \/ ~IsDateWord(text[1])
  \/ ~IsDateWord(text[2])
  \/ InstantOf(text[1]) >= InstantOf(text[2])

Rejections == {"usage", "bad_format", "bad_range"}
RejectionNotices(sent) ==
  Cardinality({k \in DOMAIN sent : sent[k].kind \in Rejections})

NoRemoteCall ==
  /\ pageCount = 0
  /\ api = [history |-> 0, users |-> 0, info |-> 0]
  /\ started = <<>>
  /\ trace = <<>>
  /\ inflight = 0
  /\ uploads = <<>>
  /\ DOMAIN files = {}

\* C10: a command text that names no window ends the export at once with
\* one rejection message, before any history, user-listing, channel-info,
\* reply or upload call and before any write.
C10_RejectionStep ==
  (pc = "start" /\ NoWindow(words)) =>
    /\ pc' = "done"
    /\ outcome' \in {"refused", "failed"}
    /\ RejectionNotices(responds') = 1
    /\ responds'[1].kind \in Rejections
    /\ NoRemoteCall'

C10_RejectedBeforeAnyRemoteCall ==
  /\ [][C10_RejectionStep]_vars
  /\ [](outcome = "refused" =>
         /\ pc = "done"
         /\ ~ENABLED Next
         /\ NoRemoteCall
         /\ Len(responds) = 1)

C10_Witness ==
  /\ outcome = "refused"
  /\ pc = "done"
  /\ Len(words) = 3
  /\ responds = <<Notice("bad_range", 0, TRUE)>>

\* The step ends in the catch block with nothing sent but the error message.
ThrownStep ==
  /\ Len(responds') = Len(responds) + 1
  /\ responds'[Len(responds')].kind = "error"

NoneFoundNotices(sent) ==
  Cardinality({k \in DOMAIN sent : sent[k].kind = "none_found"})

\* Nothing that comes after the primary fetch has happened.
NothingAfterFetch ==
  /\ api.users = 0
  /\ api.info = 0
  /\ started = <<>>
  /\ trace = <<>>
  /\ inflight = 0
  /\ allMessages = <<>>
  /\ DOMAIN files = {}
  /\ uploads = <<>>

\* C11: when the fetch loop ends with no message, the export ends in that
\* step with the 'no messages' notice as its last word: no user listing, no
\* channel info, no reply call, no file and no upload; the error message is
\* not sent unless the notice itself could not be sent.
C11_EmptyStep ==
  (pc = "history" /\ pc' # "history" /\ messages' = <<>> /\ ~ThrownStep) =>
    /\ pc' = "done"
    /\ api'.history = 1
    /\ NoneFoundNotices(responds') = 1
    /\ responds'[Len(responds) + 1].kind = "none_found"
    /\ responds'[Len(responds) + 1].ok =>
         /\ outcome' = "no_messages"
         /\ ErrorNotices(responds') = 0
    /\ NothingAfterFetch'

C11_EmptyResultEndsWithNotice ==
  /\ [][C11_EmptyStep]_vars
  /\ [](outcome = "no_messages" =>
         /\ pc = "done"
         /\ ~ENABLED Next
         /\ messages = <<>>
         /\ responds[Len(responds)] = Notice("none_found", 0, TRUE)
         /\ ErrorNotices(responds) = 0
         /\ NothingAfterFetch)

C11_Witness ==
  /\ outcome = "no_messages"
  /\ pc = "done"
  /\ api.history = 1
  /\ responds = <<Notice("exporting", 0, TRUE), Notice("none_found", 0, TRUE)>>

\* The next_cursor the k-th call along the listing comes back with.
RECURSIVE CursorAfter(_)
CursorAfter(k) ==
  IF k = 0 THEN 0 ELSE listing[CursorAfter(k - 1) + 1].next

\* The items of the first k pages along the listing, in fetch order.
RECURSIVE Accumulated(_)
Accumulated(k) ==
  IF k = 0 THEN <<>>
  ELSE Accumulated(k - 1) \o listing[CursorAfter(k - 1) + 1].page

\* The calls it takes to reach the page without a next_cursor, 0 when the
\* listing does not lead to one within MaxCalls calls.
WalkLength ==
  IF \E k \in 1..MaxCalls : CursorAfter(k) = 0
  THEN CHOOSE k \in 1..MaxCalls :
         CursorAfter(k) = 0 /\ \A j \in 1..(k - 1) : CursorAfter(j) # 0
  ELSE 0

\* C12, while the loop runs: after k calls the cursor held is the
\* next_cursor of the k-th answer, every answer so far had one, and the
\* messages are the items of the k pages in fetch order.
C12_WhileFetching ==
  pc = "history" =>
    /\ cursor = CursorAfter(pageCount)
    /\ \A j \in 1..pageCount : CursorAfter(j) # 0
    /\ messages = Accumulated(pageCount)
    /\ api.history = (IF pageCount > 0 THEN 1 ELSE 0)

\* C12, when the loop ends: at least one call was made, the last answer had
\* no next_cursor, and the messages are the items of all pages along the
\* listing (sorted by ts right after the loop), which the listing alone
\* determines.
C12_FetchEndStep ==
  (pc = "history" /\ pc' # "history" /\ ~ThrownStep) =>
    /\ api'.history = 1
    /\ CursorAfter(pageCount + 1) = 0
    /\ WalkLength = pageCount + 1
    /\ messages' = SortByTs(Accumulated(WalkLength))
    /\ Len(messages') = Len(Accumulated(WalkLength))

\* C12: the fetch loop follows the cursors of the listing from its first
\* page to the first page without a next_cursor and accumulates the items
\* of exactly those pages in fetch order; the result is a function of the
\* listing.
C12_FetchFollowsCursors ==
  /\ [](C12_WhileFetching)
  /\ [][C12_FetchEndStep]_vars

C12_Witness ==
  /\ pc = "users"
  /\ Len(listing) = 3
  /\ listing[1] = [page |-> <<Msg(20, <<0>>, FALSE)>>, next |-> 2]
  /\ listing[3] = [page |-> <<Msg(20, <<0>>, FALSE), Msg(10, <<0>>, FALSE)>>,
                   next |-> 0]
  /\ messages = <<Msg(10, <<0>>, FALSE), Msg(20, <<0>>, FALSE),
                  Msg(20, <<0>>, FALSE)>>

\* C13: the loop does not go on once a next_cursor has come back that had
\* come back before.
C13_StopsOnRepeatedCursor ==
  (pc = "history" /\ pageCount >= 2) =>
    CursorAfter(pageCount) \notin {CursorAfter(j) : j \in 1..(pageCount - 1)}

\* C14: a pair of date words with the start before the end is resolved to
\* the named instants moved back 9 hours, and the bounds moved forward 9
\* hours for display are the named instants again, on the named days.
C14_ResolveStep ==
  (/\ pc = "start"
   /\ Len(words) >= 2
   /\ IsDateWord(words[1])
   /\ IsDateWord(words[2])
   /\ InstantOf(words[1]) < InstantOf(words[2])) =>
    /\ responds'[1].kind = "exporting"
    /\ startDate' = DateAt(InstantOf(words[1]) - 9)
    /\ endDate' = DateAt(InstantOf(words[2]) - 9)
    /\ JstDate(startDate') = InstantOf(words[1])
    /\ JstDate(endDate') = InstantOf(words[2])
    /\ JstDay(startDate'.at) = words[1].day
    /\ JstDay(endDate'.at) = words[2].day

C14_WindowRoundTrips == [][C14_ResolveStep]_vars

C14_Witness ==
  /\ pc = "history"
  /\ startDate = DateAt(23)      \* day 1, 08:00 local
  /\ endDate = DateAt(62)        \* day 2, 23:00 local
  /\ JstDay(startDate.at) = 1
  /\ JstDay(endDate.at) = 2

\* A stamp of the command text: a date word, alone or followed by a time
\* word; the words it takes and the instant it names.
StampLen(text, k) ==
  IF k + 1 <= Len(text) /\ text[k + 1].shape = "t" THEN 2 ELSE 1
StampInstant(text, k) ==
  text[k].day * 24
    + (IF StampLen(text, k) = 2 THEN text[k + 1].hour ELSE text[k].hour)
EndStampAt(text) == 1 + StampLen(text, 1)

\* The text is a start stamp and an end stamp, the start before the end.
NamesWindow(text) ==
  /\ Len(text) >= 2
  /\ text[1].shape = "D"
  /\ EndStampAt(text) <= Len(text)
  /\ text[EndStampAt(text)].shape = "D"
  /\ EndStampAt(text) + StampLen(text, EndStampAt(text)) - 1 = Len(text)
  /\ StampInstant(text, 1) < StampInstant(text, EndStampAt(text))

\* C15: a start or an end given as 'YYYY-MM-DD HH:mm' is accepted and
\* resolved to that date and time of day, as 'YYYY-MM-DD' is to midnight.
C15_StampStep ==
  (pc = "start" /\ NamesWindow(words)) =>
    /\ responds'[1].kind = "exporting"
    /\ startDate' = DateAt(StampInstant(words, 1) - 9)
    /\ endDate' = DateAt(StampInstant(words, EndStampAt(words)) - 9)

C15_BothTokenFormsAccepted == [][C15_StampStep]_vars

SentOfKind(kind) == {k \in DOMAIN responds : responds[k].kind = kind}

\* C16: with --no-threads and a thread root among the messages, no reply
\* call is made and no delay is slept, both transcripts are the rendered
\* primary messages in order, and one notice is sent, with the number of
\* thread roots.
C16_SkipLeavesPrimaryOnly ==
  (skipThreads /\ Len(threadMessages) > 0) =>
    /\ started = <<>>
    /\ fetched = <<>>
    /\ trace = <<>>
    /\ inflight = 0
    /\ SentOfKind("estimate") \cup SentOfKind("progress")
         \cup SentOfKind("threads_done") = {}
    /\ allMessages # <<>> =>
         /\ allMessages = RenderAll(messages, users)
         /\ allMessagesMarkdown = RenderAllMarkdown(messages, users)
         /\ totalMessageCount = Len(messages)
         /\ Cardinality(SentOfKind("skipped")) = 1
    /\ allMessages = <<>> => SentOfKind("skipped") = {}
    /\ \A k \in SentOfKind("skipped") : responds[k].n = Len(threadMessages)
    /\ \A f \in DOMAIN files :
         files[f].lines \in {RenderAll(messages, users),
                             RenderAllMarkdown(messages, users)}

C16_Witness ==
  /\ outcome = "delivered"
  /\ skipThreads
  /\ Len(messages) = 2
  /\ Len(threadMessages) = 1
  /\ responds[Len(responds)] = Notice("skipped", 1, TRUE)
  /\ uploads[1].file.lines = RenderAll(messages, users)

\* The least number of minutes that holds `seconds`.
CeilMinutes(seconds) ==
  CHOOSE m \in 0..seconds : m * 60 >= seconds /\ (m - 1) * 60 < seconds

\* The thread counts after which a progress notification is due.
DueAfter(done, n, finalToo) ==
  {k \in 1..done : k % 10 = 0 /\ (finalToo \/ k < n)}
    \cup (IF finalToo /\ done = n THEN {n} ELSE {})

\* C17, as claimed: a notification with the remaining-time estimate has
\* been sent after every 10th thread processed and after the final one.
C17_ProgressEveryTenthAndFinal ==
  pc \in {"delay", "mkdir"} =>
    \A t \in DueAfter(Len(fetched), Len(threadMessages), TRUE) :
      \E k \in DOMAIN responds :
        /\ responds[k].n = t
        /\ responds[k].kind \in {"progress", "threads_done"}
        /\ responds[k].minutes = CeilMinutes((Len(threadMessages) - t) * 5)

\* C17, amended: a progress notification with the estimate is sent after
\* every 10th thread processed that is not the final one, once each and in
\* order; after the final thread the one completion notice is sent, with
\* the number of threads and no estimate.
C17_ProgressEveryTenthNotFinal ==
  LET n == Len(threadMessages)
      due == DueAfter(Len(fetched), n, FALSE)
  IN /\ {responds[k].n : k \in SentOfKind("progress")} = due
     /\ Cardinality(SentOfKind("progress")) = Cardinality(due)
     /\ \A k \in SentOfKind("progress") :
          /\ responds[k].minutes = CeilMinutes((n - responds[k].n) * 5)
          /\ \A j \in SentOfKind("progress") :
               j < k => responds[j].n < responds[k].n
     /\ pc = "mkdir" => Cardinality(SentOfKind("threads_done")) = 1
     /\ \A k \in SentOfKind("threads_done") :
          /\ Len(fetched) = n
          /\ responds[k].n = n
          /\ responds[k].minutes = NoEstimate
          /\ \A j \in SentOfKind("progress") : j < k

C17_Witness ==
  /\ pc = "mkdir"
  /\ Len(threadMessages) = 23
  /\ Len(fetched) = 23
  /\ \E k \in DOMAIN responds : responds[k] = TimedNotice("progress", 10, 2, TRUE)
  /\ \E k \in DOMAIN responds : responds[k] = TimedNotice("progress", 20, 1, TRUE)
  /\ responds[Len(responds)] = Notice("threads_done", 23, TRUE)

\* The author the claim names for the id of a message.
ExpectedAuthor(id, dir) ==
  IF id \in DOMAIN dir THEN dir[id]
  ELSE IF id \notin {"", Undefined} THEN id
  ELSE "Unknown User"

\* C18: a rendered line names the directory's display name for an author id
\* in the directory, the raw id for one that is not, and 'Unknown User' for
\* an empty or missing id, in the plain and in the markup transcript alike.
C18_AuthorFallback ==
  /\ Len(allMessagesMarkdown) = Len(allMessages)
  /\ \A k \in DOMAIN allMessages :
       /\ allMessages[k].user = ExpectedAuthor(messages[k].user, users)
       /\ allMessagesMarkdown[k].user = allMessages[k].user

C18_Witness ==
  /\ Len(allMessages) = 3
  /\ messages[1].user = "U1"
  /\ messages[2].user = "U9"
  /\ messages[3].user = Undefined
  /\ allMessages[1].user = "alice"
  /\ allMessages[2].user = "U9"
  /\ allMessagesMarkdown[3].user = "Unknown User"

\* No step of the export has been taken.
PipelineUntouched ==
  /\ pc = "idle"
  /\ responds = <<>>
  /\ outcome = "running"
  /\ NoRemoteCall

\* C19: the step that starts the export is taken by the acknowledged
\* handler, which returns in that step; no later step of the export changes
\* where the handler stands.
C19_HandlerStep ==
  /\ (pc = "idle" /\ pc' # "idle") =>
       /\ handler = "acked"
       /\ handler' = "returned"
       /\ pc' = "start"
  /\ pc # "idle" => handler' = handler

\* C19: the export starts after the acknowledgement, the handler has
\* returned before the export takes its first step, and however the export
\* ends the handler has returned.
C19_AckFirstExportDetached ==
  /\ [][C19_HandlerStep]_vars
  /\ [](pc # "idle" => handler = "returned")
  /\ [](handler # "returned" => PipelineUntouched)

C19_Witness ==
  /\ handler = "returned"
  /\ outcome = "failed"
  /\ rejected
  /\ fetched # <<>>

\* C20: when the only primary message is a thread root whose n >= 1 replies
\* were fetched, the transcript is the parent and its n replies in fetch
\* order and the count is n + 1.
C20_ParentThenReplies ==
  (Len(messages) = 1 /\ AllThreadsProcessed /\ fetched[1] >= 1) =>
    /\ totalMessageCount = fetched[1] + 1
    /\ Len(allMessages) = fetched[1] + 1
    /\ allMessages[1] = formatMessage(messages[1], users, "")
    /\ \A r \in 1..fetched[1] :
         allMessages[r + 1] =
           formatMessage(ReplyMsg(messages[1].ts, r), users, "  L-")

\* ------------------------------------------------------------ C21 - C30
RetryGot(n) == IF n > 1 THEN n - 1 ELSE 0

\* The step in which the retry of a rate-limited call comes back with a
\* response of n messages.
C21_RetryStep ==
  (pc = "retry_wait" /\ Len(trace') = 7 /\ trace'[6].e = "ok") =>
    LET root == threadMessages[i + 1]
        got == RetryGot(trace'[6].n)
        at == FindIndex(allMessages, root.ts)
        lines == [r \in 1..got |->
                    formatMessage(ReplyMsg(root.ts, r), users, "  L-")]
    IN /\ trace'[3].e = "rate_limited"
       /\ trace'[7] = Ev("return", got)
       /\ fetched' = Append(fetched, got)
       /\ totalMessageCount' = totalMessageCount + got
       /\ allMessages' = IF at = -1 THEN allMessages
                         ELSE Splice(allMessages, at + 1, lines)

\* C21: when the first reply call is rate-limited and the retry succeeds
\* with n messages, the replies of that thread are the messages 2..n of the
\* retry response, each once, the count grows by exactly that number and
\* nothing of the failed attempt is merged.
C21_RetryResultWithoutRoot == [][C21_RetryStep]_vars

C21_Witness ==
  /\ Len(trace) = 7
  /\ trace[3].e = "rate_limited"
  /\ trace[6] = Ev("ok", 3)
  /\ fetched # <<>>
  /\ fetched[Len(fetched)] = 2
  /\ Len(allMessages) = Len(messages) + 2

C22_WriteStep ==
  /\ files' # files =>
       \/ /\ pc = "write_txt"
          /\ pc' = "write_md"
          /\ DOMAIN files = {}
          /\ DOMAIN files' = {FileName("txt")}
       \/ /\ pc = "write_md"
          /\ pc' = "upload"
          /\ DOMAIN files = {FileName("txt")}
          /\ DOMAIN files' = {FileName("txt"), FileName("md")}
          /\ files'[FileName("txt")] = files[FileName("txt")]
  /\ uploads' # uploads =>
       /\ pc = "upload"
       /\ uploads = <<>>
       /\ Len(uploads') = 1
       /\ DOMAIN files = {FileName("txt"), FileName("md")}
       /\ files[FileName("txt")].header.count = uploads'[1].count
       /\ files[FileName("md")].header.count = uploads'[1].count

\* C22: an export writes the plain artifact and then the markup artifact,
\* each once, it calls delivery at most once and only with both artifacts
\* written, and the two headers and the delivery caption state the same
\* message count.
C22_TwoArtifactsThenOneDelivery ==
  /\ [][C22_WriteStep]_vars
  /\ [](pc = "write_md" => DOMAIN files = {FileName("txt")})
  /\ [](pc = "upload" =>
          /\ DOMAIN files = {FileName("txt"), FileName("md")}
          /\ uploads = <<>>)
  /\ [](outcome = "delivered" =>
          /\ Len(uploads) = 1
          /\ Cardinality(DOMAIN files) = 2)

C22_Witness ==
  /\ outcome = "delivered"
  /\ Len(uploads) = 1
  /\ uploads[1].count > Len(messages)
  /\ files[FileName("md")].header.count = uploads[1].count

SameMessage(plain, markdown) ==
  /\ plain.time = markdown.time
  /\ plain.user = markdown.user
  /\ plain.text = markdown.text
  /\ (plain.indent = "") <=> (markdown.indent = "")

\* C24: in every reachable state the plain and the markup transcript have
\* the same number of entries and at every position both entries render the
\* same message.
C24_TranscriptsInLockstep ==
  /\ Len(allMessages) = Len(allMessagesMarkdown)
  /\ \A k \in DOMAIN allMessages :
       SameMessage(allMessages[k], allMessagesMarkdown[k])

C24_Witness ==
  /\ Len(messages) = 2
  /\ Len(allMessages) = 4
  /\ allMessages[1].indent = ""
  /\ allMessages[2].indent # ""
  /\ allMessages[4].indent = ""

NoThreadRoot == \A k \in DOMAIN messages : messages[k].thread_ts # messages[k].ts
ThreadNotices(sent) ==
  {k \in DOMAIN sent :
     sent[k].kind \in {"estimate", "progress", "threads_done", "skipped"}}

\* C25: when no primary message is a thread root the export makes no
\* reply call, sends no estimate, progress, completion or skipped notice,
\* and every artifact states the number of primary messages and holds one
\* entry per primary message.
C25_NoRootsNoThreadWork ==
  NoThreadRoot =>
    /\ started = <<>>
    /\ trace = <<>>
    /\ fetched = <<>>
    /\ ThreadNotices(responds) = {}
    /\ \A f \in DOMAIN files :
         /\ files[f].header.count = Len(messages)
         /\ Len(files[f].lines) = Len(messages)
         /\ \A k \in DOMAIN messages :
              files[f].lines[k].time = FormatTime(messages[k].ts)

C25_Witness ==
  /\ NoThreadRoot
  /\ Len(messages) = 2
  /\ outcome = "delivered"
  /\ ~skipThreads
  /\ uploads[1].count = 2

\* C29: the message count of every written artifact's header equals the
\* number of entries of its transcript.
C29_HeaderCountIsTranscriptLength ==
  \A f \in DOMAIN files : files[f].header.count = Len(files[f].lines)

\* C28: every written artifact has a name the download endpoint accepts.
C28_ArtifactNamesAreDownloadable ==
  \A f \in DOMAIN files : DownloadAccepts(f)

Rank(substring) ==
  CASE substring = "missing_scope" -> 1
    [] substring = "channel_not_found" -> 2
    [] substring = "rate_limited" -> 3

\* The line of the first substring, in the order of Rank, that the message
\* of an Error holds.
FirstMatch(error) ==
  IF ~error.isError \/ error.has = {} THEN ""
  ELSE CHOOSE x \in error.has : \A y \in error.has : Rank(x) <= Rank(y)

\* The step in which conversations.history throws faults[1]: the error
\* message is the only word sent in it.
C27_CatchStep ==
  (pc = "history" /\ outcome' = "failed"
     /\ Len(responds') = Len(responds) + 1) =>
    /\ responds'[Len(responds')].kind = "error"
    /\ responds'[Len(responds')].detail = FirstMatch(faults[1])

\* C27: the error message of the fatal path carries the line of the first
\* substring its failure's message holds, in the order missing permission,
\* channel not found, rate limit, and no line when it holds none or the
\* failure is no Error.
C27_FirstMatchingLine == [][C27_CatchStep]_vars

C27_Witness ==
  /\ outcome = "failed"
  /\ faults[1] = Failure({"channel_not_found", "rate_limited"})
  /\ responds[Len(responds)].detail = "channel_not_found"

\* C23: a file of the exports directory, once written, keeps its content:
\* no run writes over a file that is there.
C23_ArtifactsNeverOverwritten ==
  [][\A f \in DOMAIN files : f \in DOMAIN files' /\ files'[f] = files[f]]_vars

\* C26: at least the pre-call delay lies between any two consecutive
\* conversations.replies calls of the process.
C26_DelayBetweenAnyTwoCalls == budget.closest >= PreCallDelaySec

\* C30: what a run hands to files.uploadV2 is the plain content that run
\* rendered.
C30_UploadIsOwnContent ==
  \A k \in DOMAIN uploads :
    uploads[k].file = TaskContentText(tasks[uploads[k].by])

\* ------------------------------------------------------------ C31 - C34
\* What the fetches of this run returned for the root m.
FetchedFor(m) == RepliesFetchedFor(RootPos(m))

\* The earlier inline processing: for (const msg of messages) the line of
\* msg is pushed and, when msg is a thread root, the lines of the replies
\* getThreadReplies returns for it right after it, the count growing by
\* their number.
RECURSIVE InlineAllMessages(_, _)
InlineAllMessages(msgs, dir) ==
  IF msgs = <<>> THEN <<>>
  ELSE LET msg == Head(msgs)
           replies == IF msg.thread_ts # 0 /\ msg.thread_ts = msg.ts
                      THEN FetchedFor(msg) ELSE <<>>
       IN <<formatMessage(msg, dir, "")>>
          \o [r \in 1..Len(replies) |-> formatMessage(replies[r], dir, "  L-")]
          \o InlineAllMessages(Tail(msgs), dir)

RECURSIVE InlineTotalMessageCount(_)
InlineTotalMessageCount(msgs) ==
  IF msgs = <<>> THEN 0
  ELSE LET msg == Head(msgs)
       IN 1 + (IF msg.thread_ts # 0 /\ msg.thread_ts = msg.ts
               THEN Len(FetchedFor(msg)) ELSE 0)
          + InlineTotalMessageCount(Tail(msgs))

\* C31: once every thread root has been processed, the plain transcript and
\* the count of the batch processing are those the inline processing gives
\* on the same primary messages and the same fetched replies.
C31_BatchEqualsInline ==
  AllThreadsProcessed =>
    /\ allMessages = InlineAllMessages(messages, users)
    /\ totalMessageCount = InlineTotalMessageCount(messages)

C32_LookupStep ==
  /\ pc = "users" =>
       /\ pc' = "info"
       /\ users' \in {Directory, EmptyDirectory}
       /\ responds' = responds
       /\ outcome' = "running"
       /\ ~rejected'
  /\ pc = "info" =>
       /\ pc' = "render"
       /\ channelName' \in ChannelNames \cup {ChannelId, "unknown-channel"}
       /\ responds' = responds
       /\ outcome' = "running"
       /\ ~rejected'

\* C32: the user listing and the channel-metadata call never end the
\* export, whether they answer or fail: after a failed listing the
\* directory is empty and every line names its author by raw id, the
\* artifacts carry the channel name the metadata call left ('unknown-channel'
\* after a failure, the channel id for a nameless answer), and no error
\* message is sent for either failure.
C32_LookupFailuresNotFatal ==
  /\ [][C32_LookupStep]_vars
  /\ [](users = EmptyDirectory =>
          /\ \A k \in DOMAIN allMessages : allMessages[k].user = "U1"
          /\ \A k \in DOMAIN allMessagesMarkdown :
               allMessagesMarkdown[k].user = "U1")
  /\ [](\A f \in DOMAIN files :
          /\ f.channel = channelName
          /\ files[f].header.channel = channelName)

C32_Witness ==
  /\ outcome = "delivered"
  /\ api.users = 1
  /\ users = EmptyDirectory
  /\ channelName = "unknown-channel"
  /\ allMessages[1].user = "U1"
  /\ ErrorNotices(responds) = 0
  /\ Cardinality(DOMAIN files) = 2

IsPrimaryLine(line) == line.indent = ""

\* `after` is `before` with a block of entries inserted at one place.
InsertedInto(before, after) ==
  /\ Len(after) > Len(before)
  /\ \E at \in 0..Len(before) :
       /\ SubSeq(after, 1, at) = SubSeq(before, 1, at)
       /\ SubSeq(after, at + 1 + Len(after) - Len(before), Len(after))
            = SubSeq(before, at + 1, Len(before))

C33_SpliceStep ==
  /\ (allMessages # <<>> /\ allMessages' # allMessages) =>
       InsertedInto(allMessages, allMessages')
  /\ (allMessagesMarkdown # <<>> /\ allMessagesMarkdown' # allMessagesMarkdown) =>
       InsertedInto(allMessagesMarkdown, allMessagesMarkdown')

\* C33: from the rendering on, the primary messages stand in non-decreasing
\* ts order and the unindented entries of each transcript are their lines,
\* one per message in that order; a step that changes a rendered transcript
\* inserts a block of entries and leaves all others in place and in order.
C33_PrimaryOnceInOrderSpliceInserts ==
  /\ [][C33_SpliceStep]_vars
  /\ [](allMessages # <<>> =>
          /\ \A j, k \in DOMAIN messages :
               j < k => messages[j].ts <= messages[k].ts
          /\ SelectSeq(allMessages, IsPrimaryLine) = RenderAll(messages, users)
          /\ SelectSeq(allMessagesMarkdown, IsPrimaryLine)
               = RenderAllMarkdown(messages, users))

C33_Witness ==
  /\ Len(messages) = 2
  /\ Len(allMessages) = 3
  /\ ~IsPrimaryLine(allMessages[2])
  /\ IsPrimaryLine(allMessages[3])
  /\ allMessages[3].time = FormatTime(messages[2].ts)
  /\ pc = "upload"

TerminalKinds == {"usage", "bad_format", "bad_range", "none_found", "error"}

\* The terminal outcomes that reached the requester: the terminal notices
\* whose respond() resolved and the uploads that went through.
Signalled ==
  Cardinality({k \in DOMAIN responds :
                 responds[k].kind \in TerminalKinds /\ responds[k].ok})
    + Cardinality({k \in DOMAIN uploads : uploads[k].ok})

C34_Terminates == (pc # "idle") ~> (pc = "done")

\* C34: every started export terminates, and a terminated export has
\* signalled exactly one terminal outcome to the requester: a rejection, the
\* 'no messages' notice, the delivered artifact or the error message.
C34_TerminatesWithOneOutcome ==
  /\ C34_Terminates
  /\ [](pc = "done" => Signalled = 1)

\* How far the export stands from its end: the stages still ahead, and
\* within the two loops the history calls respectively the threads and
\* the steps of the thread under way still ahead.
StageRank ==
  CASE pc = "start" -> 12
    [] pc = "history" -> 11
    [] pc = "users" -> 10
    [] pc = "info" -> 9
    [] pc = "render" -> 8
    [] pc \in {"delay", "call", "wait", "backoff", "retry", "retry_wait"} -> 7
    [] pc = "threads_done" -> 6
    [] pc = "mkdir" -> 5
    [] pc = "write_txt" -> 4
    [] pc = "write_md" -> 3
    [] pc = "upload" -> 2
    [] OTHER -> 0
StepRank ==
  CASE pc = "delay" -> 6
    [] pc = "call" -> 5
    [] pc = "wait" -> 4
    [] pc = "backoff" -> 3
    [] pc = "retry" -> 2
    [] pc = "retry_wait" -> 1
    [] OTHER -> 0
LoopSpan == 7 * (MaxThreads + MaxMsgs + 2)
StepsAhead ==
  StageRank * LoopSpan
    + (IF pc = "history" THEN MaxMsgs - pageCount ELSE 0)
    + (IF StepRank > 0 THEN 7 * (Len(threadMessages) - i) + StepRank ELSE 0)

\* C34 as the code has it: every started export terminates (each of its
\* steps brings it nearer to its end and it can always take one until it
\* has ended), and a terminated export has signalled one terminal outcome
\* to the requester, or none when the respond() of the error message itself
\* failed, the rejection of the export's promise being all that is left.
C34_TerminatesWithOneOutcomeUnlessUnsendable ==
  /\ [][pc # "idle" => (StepsAhead' < StepsAhead /\ StepsAhead' >= 0)]_vars
  /\ [](pc \notin {"idle", "done"} => ENABLED Next)
  /\ [](pc = "done" =>
          /\ Signalled <= 1
          /\ Signalled = 0 <=> rejected
          /\ rejected =>
               /\ responds[Len(responds)].kind = "error"
               /\ ~responds[Len(responds)].ok)

C34_Witness ==
  /\ pc = "done"
  /\ rejected
  /\ Signalled = 0
  /\ uploads # <<>>
  /\ ErrorNotices(responds) = 1

====
